---- MODULE Spec2Model ----
(***************************************************************************)
(* Abacus indexer: bar builder, outlier filter, venue connector and        *)
(* composite aggregator.                                                   *)
(*                                                                         *)
(* Conventions.  Prices and quantities are floats in the source; here they *)
(* are integers.  Input prices are drawn from even integers so that the    *)
(* median of an even number of prices, (a + b) / 2, is an exact integer.   *)
(* The deviation test abs((p - m) / m) * 10000 > 100 is evaluated exactly  *)
(* as abs(p - m) * 10000 > 100 * m.  Python's None is -1 where a number   *)
(* is optional (prices are positive, times non-negative), NoReason where   *)
(* an exclusion reason is optional, NoBar / NoAcc where a bar or an        *)
(* accumulator is optional.                                                *)
(* optional (prices are positive, times non-negative) and NoReason where   *)
(* an exclusion reason is optional.                                        *)
(***************************************************************************)
EXTENDS Integers, Sequences, FiniteSets, TLC

None == -1
NoReason == "None"

\* ------------------------------------------------------------------------
\* core/constants.py
\* ------------------------------------------------------------------------
OUTLIER_THRESHOLD_BPS == 100
MIN_QUORUM_poc == 1
MIN_QUORUM == 2
PREFERRED_QUORUM == 3
BAR_INTERVAL_SECONDS == 60
MAX_TRADE_BUFFER_SIZE == 5000
MAX_BARS_PER_VENUE == 1000
DEFAULT_STALE_THRESHOLD_MS == 30000
RECONNECT_INITIAL_DELAY_MS == 1000
RECONNECT_MAX_DELAY_MS == 60000
RECONNECT_BACKOFF_MULTIPLIER == 2

STALE_THRESHOLDS_MS ==
    [v \in {"binance", "coinbase", "kraken", "okx", "bybit"} |->
        CASE v = "binance"  -> 10000
          [] v = "coinbase" -> 30000
          [] v = "kraken"   -> 30000
          [] v = "okx"      -> 15000
          [] v = "bybit"    -> 15000]

get_stale_threshold(venue, market_type) ==
    IF venue \in DOMAIN STALE_THRESHOLDS_MS
        THEN STALE_THRESHOLDS_MS[venue]
        ELSE DEFAULT_STALE_THRESHOLD_MS

\* ------------------------------------------------------------------------
\* Sequence helpers
\* ------------------------------------------------------------------------
Abs(x) == IF x < 0 THEN 0 - x ELSE x

Min2(a, b) == IF a < b THEN a ELSE b
Max2(a, b) == IF a > b THEN a ELSE b

RECURSIVE SeqSum(_)
SeqSum(s) == IF s = <<>> THEN 0 ELSE Head(s) + SeqSum(Tail(s))

RECURSIVE InsertSorted(_, _)
InsertSorted(x, s) ==
    IF s = <<>> THEN <<x>>
    ELSE IF x <= Head(s) THEN <<x>> \o s
    ELSE <<Head(s)>> \o InsertSorted(x, Tail(s))

RECURSIVE SortPrices(_)
SortPrices(s) == IF s = <<>> THEN <<>> ELSE InsertSorted(Head(s), SortPrices(Tail(s)))

SelectIdx(s, Test(_)) ==
    LET RECURSIVE Go(_)
        Go(i) == IF i > Len(s) THEN <<>>
                 ELSE IF Test(i) THEN <<i>> \o Go(i + 1) ELSE Go(i + 1)
    IN Go(1)

\* ------------------------------------------------------------------------
\* core/outlier_filter.py
\* ------------------------------------------------------------------------

calculate_median_Unsorted(prices) ==
    IF prices = <<>> THEN None
    ELSE LET n == Len(prices)
         IN IF n % 2 = 1 THEN prices[(n + 1) \div 2]
            ELSE (prices[n \div 2] + prices[n \div 2 + 1]) \div 2

\* statistics.median: middle element, or the mean of the two middle ones.
calculate_median(prices) ==
    IF prices = <<>> THEN None
    ELSE LET s == SortPrices(prices)
             n == Len(s)
         IN IF n % 2 = 1 THEN s[(n + 1) \div 2]
            ELSE (s[n \div 2] + s[n \div 2 + 1]) \div 2

\* Deviation in basis points (integer part).
calculate_deviation_bps(price, median) ==
    IF median = 0 THEN 0
    ELSE (Abs(price - median) * 10000) \div Abs(median)

\* deviation > OUTLIER_THRESHOLD_BPS, evaluated exactly.
IsOutlier(price, median) ==
    IF median = 0 THEN FALSE
    ELSE Abs(price - median) * 10000 > OUTLIER_THRESHOLD_BPS * Abs(median)

\* Phase 1 without the stale check.
Phase1Reason_NoStale(inp, current_time_ms, market_type) ==
    IF ~inp.is_connected THEN "disconnected"
    ELSE IF inp.price = None \/ inp.last_update_ms = None THEN "no_data"
    ELSE NoReason

\* Phase 1 of filter_outliers for one input: the exclusion reason, or None.
Phase1Reason(inp, current_time_ms, market_type) ==
    IF ~inp.is_connected THEN "disconnected"
    ELSE IF inp.price = None \/ inp.last_update_ms = None THEN "no_data"
    ELSE IF current_time_ms - inp.last_update_ms
                > get_stale_threshold(inp.venue, market_type) THEN "stale"
    ELSE NoReason

\* next(c for c in contributions if c.venue == venue): index of the first
\* contribution of that venue.
FirstContribution(inputs, venue) ==
    CHOOSE i \in 1..Len(inputs) :
        /\ inputs[i].venue = venue
        /\ \A j \in 1..(i - 1) : inputs[j].venue # venue

derive_degraded_reason(contributions, degraded, is_gap, included_count) ==
    LET has(r) == \E i \in 1..Len(contributions) :
                      contributions[i].exclude_reason = r
    IN IF ~degraded THEN "none"
       ELSE IF is_gap THEN
            IF has("disconnected") THEN "venue_disconnected"
            ELSE IF has("no_data") \/ has("stale") THEN "venue_stale"
            ELSE IF has("outlier") THEN "venue_outlier"
            ELSE IF included_count = 1 THEN "single_source"
            ELSE "below_preferred_quorum"
       ELSE
            IF has("disconnected") THEN "venue_disconnected"
            ELSE IF has("stale") THEN "venue_stale"
            ELSE IF has("outlier") THEN "venue_outlier"
            ELSE "below_preferred_quorum"

IsCandidate_Stale(reason) == reason = NoReason \/ reason = "stale"

\* `continue` after each exclusion of phase 1: only an input that passed
\* every test is appended to candidates.
IsCandidate(reason) == reason = NoReason

filter_outliers(inputs, current_time_ms, market_type) ==
    LET n == Len(inputs)
        reason1 == [i \in 1..n |->
                       Phase1Reason(inputs[i], current_time_ms, market_type)]
        candIdx == SelectIdx(inputs, LAMBDA i : IsCandidate(reason1[i]))
        candidate_prices == [k \in 1..Len(candIdx) |-> inputs[candIdx[k]].price]
        median == calculate_median(candidate_prices)
        \* phase 3 writes through the first contribution of the venue
        target == [k \in 1..Len(candIdx) |->
                       FirstContribution(inputs, inputs[candIdx[k]].venue)]
        outl == [k \in 1..Len(candIdx) |->
                    median # None /\ IsOutlier(candidate_prices[k], median)]
        inclK == SelectIdx(candIdx, LAMBDA k : ~outl[k])
        included_prices == [j \in 1..Len(inclK) |-> candidate_prices[inclK[j]]]
        \* the last candidate writing to contribution i decides its fields
        lastK(i) == IF \E k \in 1..Len(candIdx) : target[k] = i
                    THEN CHOOSE k \in 1..Len(candIdx) :
                            /\ target[k] = i
                            /\ \A k2 \in (k + 1)..Len(candIdx) : target[k2] # i
                    ELSE 0
        contributions == [i \in 1..n |->
            LET k == lastK(i) IN
            [venue |-> inputs[i].venue,
             price |-> inputs[i].price,
             included |-> k # 0 /\ ~outl[k],
             exclude_reason |->
                 IF \E k2 \in 1..Len(candIdx) : target[k2] = i /\ outl[k2]
                     THEN "outlier" ELSE reason1[i],
             deviation_bps |->
                 IF k = 0 THEN None
                 ELSE IF median = None THEN 0
                 ELSE calculate_deviation_bps(candidate_prices[k], median)]]
        included_count == Len(included_prices)
        final_price == calculate_median(included_prices)
        is_gap == included_count < MIN_QUORUM
        degraded == included_count < PREFERRED_QUORUM \/ is_gap
    IN [price |-> IF ~is_gap THEN final_price ELSE None,
        venues |-> contributions,
        included_count |-> included_count,
        total_count |-> n,
        degraded |-> degraded,
        degraded_reason |->
            derive_degraded_reason(contributions, degraded, is_gap, included_count),
        is_gap |-> is_gap]

\* ------------------------------------------------------------------------
\* core/bar_builder.py
\* ------------------------------------------------------------------------
floor_to_minute_Exclusive(timestamp_ms) ==
    (((timestamp_ms - 1) \div 1000) \div BAR_INTERVAL_SECONDS) * BAR_INTERVAL_SECONDS

floor_to_minute(timestamp_ms) ==
    ((timestamp_ms \div 1000) \div BAR_INTERVAL_SECONDS) * BAR_INTERVAL_SECONDS

NoBar == [time |-> None, open |-> None, high |-> None, low |-> None,
          close |-> None, volume |-> 0, trade_count |-> 0,
          buy_volume |-> 0, sell_volume |-> 0, buy_count |-> 0,
          sell_count |-> 0, venue |-> NoReason, is_partial |-> FALSE]

NoAcc == [bar_time |-> None, open |-> None, high |-> None, low |-> None,
          close |-> None, volume |-> 0, trade_count |-> 0,
          buy_volume |-> 0, sell_volume |-> 0, buy_count |-> 0,
          sell_count |-> 0, venue |-> NoReason]

\* BarAccumulator(bar_time=...)
NewAccumulator(bar_time) == [NoAcc EXCEPT !.bar_time = bar_time]

Accumulator_add_trade_NoHigh(acc, trade) ==
    LET ohlc == IF acc.open = None
                THEN [acc EXCEPT !.open = trade.price, !.high = trade.price,
                                 !.low = trade.price, !.close = trade.price,
                                 !.venue = trade.venue]
                ELSE [acc EXCEPT
                        !.low = IF trade.price < acc.low THEN trade.price ELSE acc.low,
                        !.close = trade.price]
        tot == [ohlc EXCEPT !.volume = @ + trade.quantity, !.trade_count = @ + 1]
    IN IF trade.taker_side = "buy"
       THEN [tot EXCEPT !.buy_volume = @ + trade.quantity, !.buy_count = @ + 1]
       ELSE [tot EXCEPT !.sell_volume = @ + trade.quantity, !.sell_count = @ + 1]

\* BarAccumulator.add_trade
Accumulator_add_trade(acc, trade) ==
    LET ohlc == IF acc.open = None
                THEN [acc EXCEPT !.open = trade.price, !.high = trade.price,
                                 !.low = trade.price, !.close = trade.price,
                                 !.venue = trade.venue]
                ELSE [acc EXCEPT
                        !.high = IF trade.price > acc.high THEN trade.price ELSE acc.high,
                        !.low = IF trade.price < acc.low THEN trade.price ELSE acc.low,
                        !.close = trade.price]
        tot == [ohlc EXCEPT !.volume = @ + trade.quantity, !.trade_count = @ + 1]
    IN IF trade.taker_side = "buy"
       THEN [tot EXCEPT !.buy_volume = @ + trade.quantity, !.buy_count = @ + 1]
       ELSE [tot EXCEPT !.sell_volume = @ + trade.quantity, !.sell_count = @ + 1]

\* BarAccumulator.to_bar
Accumulator_to_bar(acc, is_partial) ==
    IF acc.open = None \/ acc.venue = NoReason THEN NoBar
    ELSE [time |-> acc.bar_time, open |-> acc.open, high |-> acc.high,
          low |-> acc.low, close |-> acc.close, volume |-> acc.volume,
          trade_count |-> acc.trade_count, buy_volume |-> acc.buy_volume,
          sell_volume |-> acc.sell_volume, buy_count |-> acc.buy_count,
          sell_count |-> acc.sell_count, venue |-> acc.venue,
          is_partial |-> is_partial]

Accumulator_reset_KeepTime(acc, new_bar_time) ==
    [acc EXCEPT !.open = None, !.high = None,
                !.low = None, !.close = None, !.volume = 0, !.trade_count = 0,
                !.buy_volume = 0, !.sell_volume = 0, !.buy_count = 0,
                !.sell_count = 0]

\* BarAccumulator.reset
Accumulator_reset(acc, new_bar_time) ==
    [acc EXCEPT !.bar_time = new_bar_time, !.open = None, !.high = None,
                !.low = None, !.close = None, !.volume = 0, !.trade_count = 0,
                !.buy_volume = 0, !.sell_volume = 0, !.buy_count = 0,
                !.sell_count = 0]

\* deque(maxlen=MAX_BARS_PER_VENUE).append
DequeAppend(dq, x, maxlen) ==
    IF Len(dq) >= maxlen THEN Tail(dq) \o <<x>> ELSE dq \o <<x>>

\* A freshly constructed BarBuilder.
NewBarBuilder == [accumulator |-> NoAcc, completed_bars |-> <<>>,
                  trade_count |-> 0, last_trade_time |-> None]

\* The branch of BarBuilder.add_trade taken when the trade's minute is
\* after the accumulator's: the trade opens a new bar.
StartsNewBar(trade_bar_time, acc_bar_time) == trade_bar_time > acc_bar_time

count_after_roll_NoReset(rolls, count) == count

\* `self._trade_count = 0` where the trade starts a new bar.
count_after_roll(rolls, count) == IF rolls THEN 0 ELSE count

\* BarBuilder.add_trade on builder state bb.  The result carries the new
\* builder state and the completed bar (NoBar when none was closed); the
\* completed bar is the one passed to on_bar_complete.
BarBuilder_add_trade(bb, trade) ==
    LET trade_bar_time == floor_to_minute(trade.timestamp)
        acc0 == IF bb.accumulator = NoAcc
                THEN NewAccumulator(trade_bar_time) ELSE bb.accumulator
        rolls == StartsNewBar(trade_bar_time, acc0.bar_time)
        completed_bar == IF rolls THEN Accumulator_to_bar(acc0, FALSE) ELSE NoBar
        completed1 == IF completed_bar # NoBar
                      THEN DequeAppend(bb.completed_bars, completed_bar,
                                       MAX_BARS_PER_VENUE)
                      ELSE bb.completed_bars
        acc1 == IF rolls THEN Accumulator_reset(acc0, trade_bar_time) ELSE acc0
        count1 == count_after_roll(rolls, bb.trade_count)
    IN IF count1 >= MAX_TRADE_BUFFER_SIZE
       THEN [bb |-> [accumulator |-> acc1, completed_bars |-> completed1,
                     trade_count |-> count1,
                     last_trade_time |-> bb.last_trade_time],
             completed_bar |-> completed_bar]
       ELSE [bb |-> [accumulator |-> Accumulator_add_trade(acc1, trade),
                     completed_bars |-> completed1,
                     trade_count |-> count1 + 1,
                     last_trade_time |-> trade.timestamp],
             completed_bar |-> completed_bar]

\* ------------------------------------------------------------------------
\* core/outlier_filter.py: build_composite_bar
\* aggregator/composite_aggregator.py: _build_composite
\* ------------------------------------------------------------------------
ExcludedOf(result) ==
    LET idx == SelectIdx(result.venues,
                         LAMBDA i : result.venues[i].exclude_reason # NoReason)
    IN [k \in 1..Len(idx) |-> [venue |-> result.venues[idx[k]].venue,
                               reason |-> result.venues[idx[k]].exclude_reason]]

IncludedOf(result) ==
    LET idx == SelectIdx(result.venues, LAMBDA i : result.venues[i].included)
    IN [k \in 1..Len(idx) |-> result.venues[idx[k]].venue]

build_composite_bar(time, open_result, high_result, low_result, close_result, total_volume, asset, market_type, buy_volume, sell_volume, buy_count, sell_count) ==
    LET is_gap == close_result.is_gap
    IN [time |-> time,
        open |-> IF ~is_gap THEN open_result.price ELSE None,
        high |-> IF ~is_gap THEN high_result.price ELSE None,
        low |-> IF ~is_gap THEN low_result.price ELSE None,
        close |-> IF ~is_gap THEN close_result.price ELSE None,
        volume |-> IF ~is_gap THEN total_volume ELSE 0,
        buy_volume |-> IF ~is_gap THEN buy_volume ELSE 0,
        sell_volume |-> IF ~is_gap THEN sell_volume ELSE 0,
        buy_count |-> IF ~is_gap THEN buy_count ELSE 0,
        sell_count |-> IF ~is_gap THEN sell_count ELSE 0,
        degraded |-> \/ open_result.degraded \/ high_result.degraded
                     \/ low_result.degraded \/ close_result.degraded,
        is_gap |-> is_gap,
        is_backfilled |-> FALSE,
        included_venues |-> IncludedOf(close_result),
        excluded_venues |-> ExcludedOf(close_result),
        asset |-> asset,
        market_type |-> market_type]

\* build_inputs taking last_update_ms from the end of the venue's bar instead
\* of from the connector.
build_inputs_BarTimes(venues, venue_bars, venue_state, field) ==
    [i \in 1..Len(venues) |->
        LET bar == venue_bars[venues[i]]
        IN [venue |-> venues[i],
            price |-> IF bar = NoBar THEN None
                      ELSE CASE field = "open" -> bar.open
                             [] field = "high" -> bar.high
                             [] field = "low" -> bar.low
                             [] field = "close" -> bar.close,
            last_update_ms |-> IF bar = NoBar
                               THEN venue_state[venues[i]].last_update_ms
                               ELSE (bar.time + BAR_INTERVAL_SECONDS) * 1000,
            is_connected |-> venue_state[venues[i]].is_connected]]

\* build_inputs(price_getter): one VenuePriceInput per venue of venue_bars,
\* in the order of the configured venue list; `field` names the OHLC
\* component the getter reads.
build_inputs(venues, venue_bars, venue_state, field) ==
    [i \in 1..Len(venues) |->
        LET bar == venue_bars[venues[i]]
        IN [venue |-> venues[i],
            price |-> IF bar = NoBar THEN None
                      ELSE CASE field = "open" -> bar.open
                             [] field = "high" -> bar.high
                             [] field = "low" -> bar.low
                             [] field = "close" -> bar.close,
            last_update_ms |-> venue_state[venues[i]].last_update_ms,
            is_connected |-> venue_state[venues[i]].is_connected]]

\* The venues whose volume and order flow are summed, taken from the open
\* result instead of the close result.
FlowVenueSet_FromOpen(open_result, close_result) ==
    {open_result.venues[i].venue :
        i \in {j \in 1..Len(open_result.venues) : open_result.venues[j].included}}

\* included_venue_set = {c.venue for c in close_result.venues if c.included}
FlowVenueSet(open_result, close_result) ==
    {close_result.venues[i].venue :
        i \in {j \in 1..Len(close_result.venues) : close_result.venues[j].included}}

\* _build_composite from the four filter results on: the flow sums over the
\* venues of included_venue_set and the call of build_composite_bar.
assemble_composite(asset, market_type, bar_time, venues, venue_bars, open_result, high_result, low_result, close_result) ==
    LET included_venue_set == FlowVenueSet(open_result, close_result)
        counted == SelectIdx(venues,
                       LAMBDA i : /\ venue_bars[venues[i]] # NoBar
                                  /\ venues[i] \in included_venue_set)
        total(f(_)) == SeqSum([k \in 1..Len(counted) |->
                               f(venue_bars[venues[counted[k]]])])
    IN [composite |->
            build_composite_bar(bar_time, open_result, high_result, low_result,
                                close_result,
                                total(LAMBDA b : b.volume), asset, market_type,
                                total(LAMBDA b : b.buy_volume),
                                total(LAMBDA b : b.sell_volume),
                                total(LAMBDA b : b.buy_count),
                                total(LAMBDA b : b.sell_count)),
        close_result |-> close_result]

\* filter_outliers(build_inputs(price_getter), current_time_ms, market_type)
component_result(market_type, bar_time, venues, venue_bars, venue_state, field) ==
    filter_outliers(build_inputs(venues, venue_bars, venue_state, field),
                    bar_time * 1000 + BAR_INTERVAL_SECONDS * 1000, market_type)

\* CompositeAggregator._build_composite: the composite bar and close_result.
build_composite(asset, market_type, bar_time, venues, venue_bars, venue_state) ==
    assemble_composite(
        asset, market_type, bar_time, venues, venue_bars,
        component_result(market_type, bar_time, venues, venue_bars, venue_state, "open"),
        component_result(market_type, bar_time, venues, venue_bars, venue_state, "high"),
        component_result(market_type, bar_time, venues, venue_bars, venue_state, "low"),
        component_result(market_type, bar_time, venues, venue_bars, venue_state, "close"))

\* CompositeAggregator._prepare_venue_bars_for_persistence
prepare_venue_bars_for_persistence(venues, venue_bars, close_result) ==
    LET withBar == SelectIdx(venues, LAMBDA i : venue_bars[venues[i]] # NoBar)
        statusOf(v) ==
            IF \E j \in 1..Len(close_result.venues) : close_result.venues[j].venue = v
            THEN LET j == CHOOSE j \in 1..Len(close_result.venues) :
                              /\ close_result.venues[j].venue = v
                              /\ \A j2 \in (j + 1)..Len(close_result.venues) :
                                    close_result.venues[j2].venue # v
                 IN [included |-> close_result.venues[j].included,
                     exclude_reason |-> close_result.venues[j].exclude_reason]
            ELSE [included |-> FALSE, exclude_reason |-> "no_data"]
    IN [k \in 1..Len(withBar) |->
           [bar |-> venue_bars[venues[withBar[k]]],
            included |-> statusOf(venues[withBar[k]]).included,
            exclude_reason |-> statusOf(venues[withBar[k]]).exclude_reason]]

\* ------------------------------------------------------------------------
\* State
\* ------------------------------------------------------------------------
VARIABLES
    builder,        \* BarBuilder: _accumulator, _completed_bars, _trade_count, _last_trade_time
    emitted_bars,   \* bars passed to on_bar_complete, in call order
    last_trade,     \* argument of the latest add_trade call
    calls,          \* number of add_trade calls so far
    accepted_minutes,   \* the minutes of the trades add_trade has accepted
    f_inputs,       \* filter_outliers: inputs
    f_now,          \* filter_outliers: current_time_ms
    f_market,       \* filter_outliers: market_type
    f_result,       \* filter_outliers: returned CompositeResult (NoResult before the call)
    connection_state,   \* ConnectorState.connection_state
    c_running,          \* BaseConnector._running
    c_ws,               \* BaseConnector._ws: "none" or "set"
    sock,               \* the session's socket: "none", "open", "closed"
    c_pc,               \* where the _run_loop task is suspended
    c_cancel,           \* task.cancel() requested and not yet delivered
    stop_pc,            \* where stop() is: "idle", "closing", "joining", "returned"
    reconnect_delay_ms, \* ConnectorState.current_reconnect_delay_ms
    delay_ms,           \* _run_loop's local delay_ms (None before the first wait)
    reconnect_count,    \* ConnectorState.reconnect_count
    last_error,         \* ConnectorState.last_error
    last_message_time_ms, \* ConnectorState.last_message_time_ms
    message_count,      \* ConnectorState.message_count
    c_trade_count,      \* ConnectorState.trade_count
    clock_ms,           \* time.time() * 1000
    session_connected,  \* the latest session reached CONNECTED
    session_error,      \* the latest session ended with an exception
    pc_at_stop,         \* where the task was when stop() was called
    cb_after_stop,      \* a callback was invoked after stop() returned
    a_running,          \* CompositeAggregator._running
    a_pc,               \* where the _composite_loop task is suspended ("none": no task)
    a_cancel,           \* _composite_task.cancel() requested and not yet delivered
    a_stop_pc,          \* where CompositeAggregator.stop() is
    wall_clock,         \* int(time.time()), seconds
    sleep_until,        \* when the task's current sleep is over
    tick_now,           \* _composite_loop's local `now` while it is live (None otherwise)
    connectors,         \* keys of CompositeAggregator._connectors
    bar_buffers,        \* _bar_buffers: latest completed bar per connector key
    last_composite_times, \* _last_composite_times
    composite_bar_buffer, \* _composite_bar_buffer
    emit_log,           \* bar_time of every on_composite_bar call, per (asset, market)
    last_emit,          \* the latest on_composite_bar call per (asset, market)
    a_cb_after_stop,    \* a sink callback was invoked after stop() returned
    a_ghost,            \* restarted: start() was called after a stop();
                        \* pc_at_stop: where the task was when stop() was called;
                        \* bar_during_stop: a connector delivered a bar during stop()
    b_market,           \* _build_composite: market_type
    b_venue_bars,       \* _build_composite: venue_bars
    b_venue_state,      \* _build_composite: venue_state
    b_built,            \* _build_composite: what it returned
    table,              \* composite_bars: the row of each (time, asset, market_type)
    upserts,            \* number of rows upserted so far
    last_upsert,        \* the latest upsert: its bar and the row it found
    last_inserted,      \* what the latest insert() returned
    last_count,         \* what the latest insert_batch() returned
    bf_pc,              \* backfill_gaps: "idle", "running" or "returned"
    bf_market,          \* backfill_gaps: market_type
    bf_venues,          \* backfill_gaps: venues, after the default is applied
    bf_gaps,            \* backfill_gaps: the gap timestamps still to process
    bf_result,          \* backfill_gaps: the BackfillResult
    fetch_log,          \* venues whose REST fetcher was invoked
    venue_rows,         \* venue bars written through venue_repo.insert_batch
    bf_last,            \* _backfill_single_gap: the latest gap's bars and outcome
    bf_window,          \* backfill_gaps: start_time and end_time
    bf_started,         \* the gap rows of the window and the upserts made, when
                        \* the running call began
    bf_history          \* the calls of backfill_gaps that returned, in order

barVars == <<builder, emitted_bars, last_trade, calls, accepted_minutes>>
filterVars == <<f_inputs, f_now, f_market, f_result>>
connVars == <<connection_state, c_running, c_ws, sock, c_pc, c_cancel,
              stop_pc, reconnect_delay_ms, delay_ms, reconnect_count,
              last_error, last_message_time_ms, message_count, c_trade_count,
              clock_ms, session_connected, session_error, pc_at_stop,
              cb_after_stop>>
aggVars == <<a_running, a_pc, a_cancel, a_stop_pc, wall_clock, sleep_until, tick_now,
             connectors, bar_buffers, last_composite_times,
             composite_bar_buffer, emit_log, last_emit, a_cb_after_stop, a_ghost>>
buildVars == <<b_market, b_venue_bars, b_venue_state, b_built>>
repoVars == <<table, upserts, last_upsert, last_inserted, last_count>>
backfillVars == <<bf_pc, bf_market, bf_venues, bf_gaps, bf_result, fetch_log,
                 venue_rows, bf_last, bf_window, bf_started, bf_history>>
persistVars == <<repoVars, backfillVars>>
vars == <<builder, emitted_bars, last_trade, calls, accepted_minutes,
          f_inputs, f_now, f_market, f_result,
          connection_state, c_running, c_ws, sock, c_pc, c_cancel,
          stop_pc, reconnect_delay_ms, delay_ms, reconnect_count,
          last_error, last_message_time_ms, message_count, c_trade_count,
          clock_ms, session_connected, session_error, pc_at_stop,
          cb_after_stop,
          a_running, a_pc, a_cancel, a_stop_pc, wall_clock, sleep_until, tick_now,
          connectors, bar_buffers, last_composite_times,
          composite_bar_buffer, emit_log, last_emit, a_cb_after_stop, a_ghost,
          b_market, b_venue_bars, b_venue_state, b_built,
          table, upserts, last_upsert, last_inserted, last_count,
          bf_pc, bf_market, bf_venues, bf_gaps, bf_result, fetch_log,
          venue_rows, bf_last, bf_window, bf_started, bf_history>>

\* ------------------------------------------------------------------------
\* Bounds and input sets
\* ------------------------------------------------------------------------
MaxTrades == 3

TradeTimes == {59900, 60000, 60100, 120000}
TradePrices == {90, 100, 110}
TradeQuantities == {1, 2}
TakerSides == {"buy", "sell"}

TradesOf(venue) ==
    [timestamp : TradeTimes, price : TradePrices, quantity : TradeQuantities,
     taker_side : TakerSides, venue : {venue}]

NoTrade == [timestamp |-> None, price |-> None, quantity |-> 0,
            taker_side |-> "buy", venue |-> NoReason]

FilterVenues == {"binance", "coinbase", "okx"}
FilterPrices == {None, 94100, 94600, 95100}
FilterNow == 1000000
FilterUpdates == {None, FilterNow - 1000, FilterNow - 12000, FilterNow - 40000}

VenuePriceInputs ==
    [venue : FilterVenues, price : FilterPrices,
     last_update_ms : FilterUpdates, is_connected : BOOLEAN]

MaxFilterInputs == 3

\* Lists of distinct venues (the callers build the inputs from a dict
\* keyed by venue), in every order.
RECURSIVE VenueLists(_)
VenueLists(n) ==
    IF n = 0 THEN {<<>>}
    ELSE LET shorter == VenueLists(n - 1)
         IN shorter \cup
            {Append(q, v) : q \in {r \in shorter : Len(r) = n - 1},
                            v \in FilterVenues} 

DistinctVenues(q) ==
    \A i, j \in 1..Len(q) : i # j => q[i] # q[j]

VenueOrders == {q \in VenueLists(MaxFilterInputs) : DistinctVenues(q)}

NoResult == [price |-> None, venues |-> <<>>, included_count |-> 0,
             total_count |-> 0, degraded |-> FALSE,
             degraded_reason |-> "not_called", is_gap |-> FALSE]

BarIdle == /\ builder = NewBarBuilder
           /\ emitted_bars = <<>>
           /\ last_trade = NoTrade
           /\ calls = 0
           /\ accepted_minutes = {}

\* A freshly constructed connector (ConnectorState defaults, no task).
ConnIdle == /\ connection_state = "disconnected"
            /\ c_running = FALSE
            /\ c_ws = "none"
            /\ sock = "none"
            /\ c_pc = "none"
            /\ c_cancel = FALSE
            /\ stop_pc = "idle"
            /\ reconnect_delay_ms = RECONNECT_INITIAL_DELAY_MS
            /\ delay_ms = None
            /\ reconnect_count = 0
            /\ last_error = FALSE
            /\ last_message_time_ms = None
            /\ message_count = 0
            /\ c_trade_count = 0
            /\ clock_ms = 0
            /\ session_connected = FALSE
            /\ session_error = FALSE
            /\ pc_at_stop = "none"
            /\ cb_after_stop = FALSE

FilterIdle == /\ f_inputs = <<>>
              /\ f_now = FilterNow
              /\ f_market = "spot"
              /\ f_result = NoResult

\* ------------------------------------------------------------------------
\* aggregator/composite_aggregator.py: configuration and input sets
\* ------------------------------------------------------------------------
MAX_IN_MEMORY_BARS == 120
GRACE_SECONDS == 2
MaxMinutes == 2

Range(s) == {s[i] : i \in 1..Len(s)}

\* AggregatorConfig: one asset, the default spot venues, no perp venue.
assets == <<"BTC">>
spot_venues == <<"binance", "coinbase">>
perp_venues == <<>>
MarketTypes == <<"spot", "perp">>

VenuesFor(market_type) ==
    IF market_type = "spot" THEN spot_venues ELSE perp_venues

\* _make_connector returns no connector for an unsupported venue/market.
make_connector(venue, market_type) ==
    CASE venue \in {"coinbase", "kraken"} -> market_type = "spot"
      [] venue = "bybit" -> market_type = "perp"
      [] OTHER -> venue \in {"binance", "okx"}

CompositeKeys == {<<a, m>> : a \in Range(assets), m \in Range(MarketTypes)}

\* The (venue, asset, market_type) keys of the configuration.
ConfiguredKeys ==
    UNION {{<<VenuesFor(k[2])[i], k[1], k[2]>> : i \in 1..Len(VenuesFor(k[2]))} :
              k \in CompositeKeys}

\* The (asset, market_type) pairs in the order _compute_composites visits them.
CompositeKeySeq ==
    [k \in 1..(Len(assets) * Len(MarketTypes)) |->
        <<assets[((k - 1) \div Len(MarketTypes)) + 1],
          MarketTypes[((k - 1) % Len(MarketTypes)) + 1]>>]

\* Completed one-minute venue bars a connector can deliver.
BarShapes == {"flat", "up", "down", "rise", "dip"}
AggShapes == {"flat"}
AggBar(venue, time, shape) ==
    LET o == CASE shape = "up" -> 94100 [] shape = "down" -> 96200
               [] shape = "dip" -> 95000 [] OTHER -> 95100
        c == CASE shape = "rise" -> 96200 [] shape = "dip" -> 95000 [] OTHER -> 95100
        v == CASE shape = "flat" -> 2 [] shape = "up" -> 3
               [] shape = "down" -> 5 [] shape = "dip" -> 4 [] OTHER -> 8
    IN [time |-> time, open |-> o,
        high |-> IF o > c THEN o ELSE c,
        low |-> CASE shape = "dip" -> 93900 [] o < c -> o [] OTHER -> c,
        close |-> c, volume |-> v, trade_count |-> v,
        buy_volume |-> v - 1, sell_volume |-> 1,
        buy_count |-> v - 1, sell_count |-> 1,
        venue |-> venue, is_partial |-> FALSE]

\* (is_connected(), get_last_update_time()) of a connector, read when the
\* composite of the bar ending at bar_end_ms is computed.
ConnectorReadings(bar_end_ms) ==
    {[is_connected |-> TRUE, last_update_ms |-> bar_end_ms + 1000],
     [is_connected |-> TRUE, last_update_ms |-> bar_end_ms - 40000],
     [is_connected |-> FALSE, last_update_ms |-> bar_end_ms + 1000]}

\* The readings drawn when the aggregator's loop computes a composite: every
\* connector has a recent update, and the binance connectors may be
\* disconnected.
AggReadings(bar_end_ms) ==
    {r \in [ConfiguredKeys -> ConnectorReadings(bar_end_ms)] :
        \A k \in ConfiguredKeys :
            /\ r[k].last_update_ms >= bar_end_ms
            /\ ~r[k].is_connected => k[1] = "binance"}

NoEmit == [venue_bars |-> <<>>, close_included |-> {}, venue_bar_tuples |-> <<>>,
           venue_bars_called |-> FALSE]

NoRaise == [key |-> <<"none", "none">>, sink |-> "none"]
RaiseChoices ==
    {NoRaise} \cup {[key |-> k, sink |-> "composite"] : k \in CompositeKeys}

\* _build_composite applied to bounded inputs: the venues, the minute and
\* the state before the call.
BuildVenues == <<"binance", "coinbase", "okx">>
BuildBarTime == 60
NotBuilt == [done |-> FALSE]
BuildIdle == /\ b_market = "spot"
             /\ b_venue_bars = [v \in Range(BuildVenues) |-> NoBar]
             /\ b_venue_state = [v \in Range(BuildVenues) |->
                                    [is_connected |-> FALSE, last_update_ms |-> None]]
             /\ b_built = NotBuilt

\* The minutes and (time, asset, market_type) keys of composite_bars that
\* are told apart.
MaxRepoMinutes == 2
RepoTimes == {m * BAR_INTERVAL_SECONDS : m \in 0..(MaxRepoMinutes - 1)}
RepoKeys == {<<t, "BTC", m>> : t \in RepoTimes, m \in Range(MarketTypes)}
NoRow == [exists |-> FALSE]
NoUpsert == [done |-> FALSE]
NoGapRun == [gap_time |-> None]
NotStarted == [gap_rows |-> 0, upserts |-> 0, venues |-> [given |-> FALSE, list |-> <<>>]]
NoBackfillResult == [gaps_found |-> 0, bars_repaired |-> 0, bars_failed |-> 0,
                     venue_bars_inserted |-> 0, errors |-> 0]

\* An empty composite_bars table and no upsert made.
RepoIdle == /\ table = [k \in RepoKeys |-> NoRow]
            /\ upserts = 0
            /\ last_upsert = NoUpsert
            /\ last_inserted = FALSE
            /\ last_count = 0

\* A BackfillService on which backfill_gaps has not been called.
BackfillIdle == /\ bf_pc = "idle"
                /\ bf_market = "spot"
                /\ bf_venues = <<>>
                /\ bf_gaps = <<>>
                /\ bf_result = NoBackfillResult
                /\ fetch_log = {}
                /\ venue_rows = {}
                /\ bf_last = NoGapRun
                /\ bf_window = [start_time |-> 0, end_time |-> 0]
                /\ bf_started = NotStarted
                /\ bf_history = <<>>

PersistIdle == RepoIdle /\ BackfillIdle

\* A freshly constructed CompositeAggregator.
AggIdle == /\ a_running = FALSE
           /\ a_pc = "none"
           /\ a_cancel = FALSE
           /\ a_stop_pc = "idle"
           /\ wall_clock = 0
           /\ sleep_until = 0
           /\ tick_now = None
           /\ connectors = {}
           /\ bar_buffers = [k \in ConfiguredKeys |-> NoBar]
           /\ last_composite_times = [k \in CompositeKeys |-> None]
           /\ composite_bar_buffer = [k \in CompositeKeys |-> <<>>]
           /\ emit_log = [k \in CompositeKeys |-> <<>>]
           /\ last_emit = [k \in CompositeKeys |-> NoEmit]
           /\ a_cb_after_stop = FALSE
           /\ a_ghost = [restarted |-> FALSE, pc_at_stop |-> "none",
                         bar_during_stop |-> FALSE]

\* ------------------------------------------------------------------------
\* Bar builder fed by a trade stream
\* ------------------------------------------------------------------------
\* builder.add_trade(trade), with on_bar_complete recording the bar.
\* add_trade(trade) on bb reaches `self._accumulator.add_trade(trade)`.
Accepts(bb, trade) ==
    count_after_roll(/\ bb.accumulator # NoAcc
                     /\ StartsNewBar(floor_to_minute(trade.timestamp),
                                     bb.accumulator.bar_time),
                     bb.trade_count) < MAX_TRADE_BUFFER_SIZE

AddTrade(trade) ==
    LET r == BarBuilder_add_trade(builder, trade)
    IN /\ builder' = r.bb
       /\ accepted_minutes' = IF Accepts(builder, trade)
                              THEN accepted_minutes \cup {floor_to_minute(trade.timestamp)}
                              ELSE accepted_minutes
       /\ emitted_bars' = IF r.completed_bar # NoBar
                          THEN Append(emitted_bars, r.completed_bar)
                          ELSE emitted_bars
       /\ last_trade' = trade
       /\ calls' = calls + 1

BarAddTrade ==
    /\ calls < MaxTrades
    /\ \E trade \in TradesOf("binance") : AddTrade(trade)
    /\ UNCHANGED filterVars
    /\ UNCHANGED connVars
    /\ UNCHANGED aggVars
    /\ UNCHANGED buildVars
    /\ UNCHANGED persistVars

InitBar == BarIdle /\ FilterIdle /\ ConnIdle /\ AggIdle /\ BuildIdle /\ PersistIdle
NextBar == BarAddTrade
SpecBar == InitBar /\ [][NextBar]_vars

\* ------------------------------------------------------------------------
\* BarBuilder.add_trade on a bar that is at, or one trade below, the
\* per-minute limit
\* ------------------------------------------------------------------------

\* The trade the bar was filled with.
CapTrade == [timestamp |-> 59900, price |-> 100, quantity |-> 1,
             taker_side |-> "buy", venue |-> "binance"]

\* The builder after n calls add_trade(CapTrade) on a fresh BarBuilder,
\* n <= MAX_TRADE_BUFFER_SIZE: each was accepted into the bar of minute 0.
BuilderAfter(n) ==
    [accumulator |-> [bar_time |-> floor_to_minute(CapTrade.timestamp),
                      open |-> CapTrade.price, high |-> CapTrade.price,
                      low |-> CapTrade.price, close |-> CapTrade.price,
                      volume |-> n * CapTrade.quantity, trade_count |-> n,
                      buy_volume |-> n * CapTrade.quantity, sell_volume |-> 0,
                      buy_count |-> n, sell_count |-> 0,
                      venue |-> CapTrade.venue],
     completed_bars |-> <<>>,
     trade_count |-> n,
     last_trade_time |-> CapTrade.timestamp]

\* calls counts the calls made after the n that filled the bar.
InitBarCap ==
    /\ \E n \in {MAX_TRADE_BUFFER_SIZE - 1, MAX_TRADE_BUFFER_SIZE} :
          builder = BuilderAfter(n)
    /\ emitted_bars = <<>>
    /\ last_trade = CapTrade
    /\ calls = 0
    /\ accepted_minutes = {floor_to_minute(CapTrade.timestamp)}
    /\ FilterIdle /\ ConnIdle /\ AggIdle /\ BuildIdle /\ PersistIdle
NextBarCap == BarAddTrade
SpecBarCap == InitBarCap /\ [][NextBarCap]_vars

\* ------------------------------------------------------------------------
\* filter_outliers applied to bounded inputs
\* ------------------------------------------------------------------------
ApplyFilter ==
    /\ f_result = NoResult
    /\ f_result' = filter_outliers(f_inputs, f_now, f_market)
    /\ UNCHANGED <<f_inputs, f_now, f_market>>
    /\ UNCHANGED barVars
    /\ UNCHANGED connVars
    /\ UNCHANGED aggVars
    /\ UNCHANGED buildVars
    /\ UNCHANGED persistVars

InitFilter ==
    /\ PersistIdle
    /\ BarIdle
    /\ ConnIdle
    /\ AggIdle
    /\ BuildIdle
    /\ \E order \in VenueOrders :
         \E fields \in [1..Len(order) -> [price : FilterPrices,
                                          last_update_ms : FilterUpdates,
                                          is_connected : BOOLEAN]] :
            f_inputs = [i \in 1..Len(order) |->
                           [venue |-> order[i],
                            price |-> fields[i].price,
                            last_update_ms |-> fields[i].last_update_ms,
                            is_connected |-> fields[i].is_connected]]
    /\ f_now = FilterNow
    /\ f_market \in {"spot", "perp"}
    /\ f_result = NoResult
NextFilter == ApplyFilter
SpecFilter == InitFilter /\ [][NextFilter]_vars

\* ------------------------------------------------------------------------
\* connectors/base.py: one connector, its supervising task and stop()
\* ------------------------------------------------------------------------
MaxReconnects == 8
MaxMessages == 2

ConnTradeA == [timestamp |-> 59900, price |-> 100, quantity |-> 1,
               taker_side |-> "buy", venue |-> "binance"]
ConnTradeB == [timestamp |-> 60100, price |-> 110, quantity |-> 1,
               taker_side |-> "sell", venue |-> "binance"]

\* What parse_message returns for a frame: no trade (administrative frame)
\* or one or two trades.
ParsedFrames == {<<>>, <<ConnTradeA>>, <<ConnTradeB>>, <<ConnTradeA, ConnTradeB>>}

otherThanConn == <<filterVars, aggVars, buildVars, persistVars>>
telemetryVars == <<last_message_time_ms, message_count, c_trade_count>>
builderVars == <<builder, emitted_bars, last_trade, calls, accepted_minutes>>

\* A callback invoked in this step is recorded when stop() has returned.
Notify(invoked) ==
    cb_after_stop' = (cb_after_stop \/ (invoked /\ stop_pc = "returned"))

\* for trade in trades: self._bar_builder.add_trade(trade); on_trade(trade)
RECURSIVE FeedTrades(_, _)
FeedTrades(st, trades) ==
    IF trades = <<>> THEN st
    ELSE LET r == BarBuilder_add_trade(st.bb, Head(trades))
         IN FeedTrades(
                [bb |-> r.bb,
                 emitted |-> IF r.completed_bar # NoBar
                             THEN Append(st.emitted, r.completed_bar)
                             ELSE st.emitted,
                 last |-> Head(trades),
                 n |-> st.n + 1,
                 accepted |-> IF Accepts(st.bb, Head(trades))
                              THEN st.accepted \cup
                                     {floor_to_minute(Head(trades).timestamp)}
                              ELSE st.accepted],
                Tail(trades))

\* BaseConnector.start
ConnStart ==
    /\ stop_pc = "idle"
    /\ ~c_running
    /\ c_pc = "none"
    /\ c_running' = TRUE
    /\ c_pc' = "created"
    /\ UNCHANGED <<connection_state, c_ws, sock, c_cancel, stop_pc,
                   reconnect_delay_ms, delay_ms, reconnect_count, last_error,
                   clock_ms, session_connected, session_error, pc_at_stop,
              cb_after_stop>>
    /\ UNCHANGED telemetryVars
    /\ UNCHANGED builderVars
    /\ UNCHANGED otherThanConn

\* _run_loop: the `while self._running` test and, when it passes, the part
\* of _connect_and_receive up to `async with websockets.connect(...)`.
LoopTop ==
    IF c_running
    THEN /\ connection_state' = "connecting"
         /\ Notify(connection_state # "connecting")
         /\ session_connected' = FALSE
         /\ session_error' = FALSE
         /\ c_pc' = "connecting"
    ELSE /\ c_pc' = "done"
         /\ UNCHANGED <<connection_state, cb_after_stop, session_connected,
                        session_error>>

\* _run_loop after _connect_and_receive returned or raised: record the
\* error, leave when stopped, otherwise count the reconnect and start the
\* backoff sleep.  The state is left as the session left it.
SessionEnded(err) ==
    /\ last_error' = (last_error \/ err)
    /\ session_error' = err
    /\ IF ~c_running
       THEN /\ c_pc' = "done"
            /\ UNCHANGED <<reconnect_count, delay_ms>>
       ELSE /\ reconnect_count < MaxReconnects
            /\ reconnect_count' = reconnect_count + 1
            /\ delay_ms' = reconnect_delay_ms
            /\ c_pc' = "backoff"

\* The task runs for the first time.
TaskBegin ==
    /\ c_pc = "created"
    /\ ~c_cancel
    /\ LoopTop
    /\ UNCHANGED <<c_running, c_ws, sock, c_cancel, stop_pc,
                   reconnect_delay_ms, delay_ms, reconnect_count, last_error,
                   clock_ms, pc_at_stop>>
    /\ UNCHANGED telemetryVars
    /\ UNCHANGED builderVars
    /\ UNCHANGED otherThanConn

\* websockets.connect succeeded: CONNECTED, delay reset, subscription sent.
ConnectOK ==
    /\ c_pc = "connecting"
    /\ ~c_cancel
    /\ c_ws' = "set"
    /\ sock' = "open"
    /\ connection_state' = "connected"
    /\ Notify(connection_state # "connected")
    /\ reconnect_delay_ms' = RECONNECT_INITIAL_DELAY_MS
    /\ session_connected' = TRUE
    /\ c_pc' = "subscribing"
    /\ UNCHANGED <<c_running, c_cancel, stop_pc, delay_ms, reconnect_count,
                   last_error, clock_ms, session_error, pc_at_stop>>
    /\ UNCHANGED telemetryVars
    /\ UNCHANGED builderVars
    /\ UNCHANGED otherThanConn

\* websockets.connect raised.
ConnectFail ==
    /\ c_pc = "connecting"
    /\ ~c_cancel
    /\ SessionEnded(TRUE)
    /\ UNCHANGED <<connection_state, c_running, c_ws, sock, c_cancel, stop_pc,
                   reconnect_delay_ms, clock_ms, session_connected,
                   cb_after_stop, pc_at_stop>>
    /\ UNCHANGED telemetryVars
    /\ UNCHANGED builderVars
    /\ UNCHANGED otherThanConn

\* ws.send(subscription) returned: the receive loop starts.
SendOK ==
    /\ c_pc = "subscribing"
    /\ ~c_cancel
    /\ c_pc' = "receiving"
    /\ UNCHANGED <<connection_state, c_running, c_ws, sock, c_cancel, stop_pc,
                   reconnect_delay_ms, delay_ms, reconnect_count, last_error,
                   clock_ms, session_connected, session_error, pc_at_stop,
              cb_after_stop>>
    /\ UNCHANGED telemetryVars
    /\ UNCHANGED builderVars
    /\ UNCHANGED otherThanConn

\* ws.send raised: the socket is closed by `async with`.
SendFail ==
    /\ c_pc = "subscribing"
    /\ ~c_cancel
    /\ sock' = "closed"
    /\ SessionEnded(TRUE)
    /\ UNCHANGED <<connection_state, c_running, c_ws, c_cancel, stop_pc,
                   reconnect_delay_ms, clock_ms, session_connected,
                   cb_after_stop, pc_at_stop>>
    /\ UNCHANGED telemetryVars
    /\ UNCHANGED builderVars
    /\ UNCHANGED otherThanConn

\* _handle_message on a frame that is not valid JSON.
HandleInvalidJson ==
    /\ message_count' = message_count + 1
    /\ last_message_time_ms' = clock_ms
    /\ UNCHANGED c_trade_count
    /\ UNCHANGED builderVars
    /\ UNCHANGED cb_after_stop

\* _handle_message on a frame that parses to `trades`.
HandleMessage(trades) ==
    LET st == FeedTrades([bb |-> builder, emitted |-> emitted_bars,
                          last |-> last_trade, n |-> calls,
                          accepted |-> accepted_minutes], trades)
    IN /\ message_count' = message_count + 1
       /\ last_message_time_ms' = clock_ms
       /\ c_trade_count' = c_trade_count + Len(trades)
       /\ builder' = st.bb
       /\ emitted_bars' = st.emitted
       /\ last_trade' = st.last
       /\ calls' = st.n
       /\ accepted_minutes' = st.accepted
       /\ Notify(trades # <<>>)

\* `async for message in ws`: a frame arrives.
Receive ==
    /\ c_pc = "receiving"
    /\ ~c_cancel
    /\ IF ~c_running
       THEN /\ sock' = "closed"
            /\ SessionEnded(FALSE)
            /\ UNCHANGED telemetryVars
            /\ UNCHANGED builderVars
            /\ UNCHANGED cb_after_stop
       ELSE /\ message_count < MaxMessages
            /\ \/ HandleInvalidJson
               \/ \E trades \in ParsedFrames : HandleMessage(trades)
            /\ UNCHANGED <<c_pc, sock, last_error, reconnect_count, delay_ms,
                           session_error>>
    /\ UNCHANGED <<connection_state, c_running, c_ws, c_cancel, stop_pc,
                   reconnect_delay_ms, clock_ms, session_connected, pc_at_stop>>
    /\ UNCHANGED otherThanConn

\* The socket is dropped (err) or closed cleanly (~err) while receiving.
SocketDrop ==
    /\ c_pc = "receiving"
    /\ ~c_cancel
    /\ sock' = "closed"
    /\ \E err \in BOOLEAN : SessionEnded(err)
    /\ UNCHANGED <<connection_state, c_running, c_ws, c_cancel, stop_pc,
                   reconnect_delay_ms, clock_ms, session_connected,
                   cb_after_stop, pc_at_stop>>
    /\ UNCHANGED telemetryVars
    /\ UNCHANGED builderVars
    /\ UNCHANGED otherThanConn

\* Exponential backoff without the cap.
NextReconnectDelay_NoCap(delay) == delay * RECONNECT_BACKOFF_MULTIPLIER

\* min(int(delay_ms * RECONNECT_BACKOFF_MULTIPLIER), RECONNECT_MAX_DELAY_MS)
NextReconnectDelay(delay) ==
    Min2(delay * RECONNECT_BACKOFF_MULTIPLIER, RECONNECT_MAX_DELAY_MS)

\* The backoff sleep is over: double the delay up to the cap and loop.
BackoffDone ==
    /\ c_pc = "backoff"
    /\ ~c_cancel
    /\ clock_ms' = clock_ms + delay_ms
    /\ reconnect_delay_ms' = NextReconnectDelay(delay_ms)
    /\ LoopTop
    /\ UNCHANGED <<c_running, c_ws, sock, c_cancel, stop_pc, delay_ms,
                   reconnect_count, last_error, pc_at_stop>>
    /\ UNCHANGED telemetryVars
    /\ UNCHANGED builderVars
    /\ UNCHANGED otherThanConn

\* CancelledError is delivered at the await the task is suspended on.
Cancelled ==
    /\ c_cancel
    /\ c_pc \in {"created", "connecting", "subscribing", "receiving", "backoff"}
    /\ c_pc' = "done"
    /\ c_cancel' = FALSE
    /\ sock' = IF sock = "open" THEN "closed" ELSE sock
    /\ UNCHANGED <<connection_state, c_running, c_ws, stop_pc,
                   reconnect_delay_ms, delay_ms, reconnect_count, last_error,
                   clock_ms, session_connected, session_error, pc_at_stop,
              cb_after_stop>>
    /\ UNCHANGED telemetryVars
    /\ UNCHANGED builderVars
    /\ UNCHANGED otherThanConn

\* stop() returning without cancelling or awaiting the task.
StopTaskPhase_NoCancel ==
    /\ connection_state' = "disconnected"
    /\ stop_pc' = "returned"
    /\ UNCHANGED c_cancel

\* stop(): `if self._task:` cancel it and await it; without a task set
\* DISCONNECTED and return.
StopTaskPhase ==
    IF c_pc = "none"
    THEN /\ connection_state' = "disconnected"
         /\ stop_pc' = "returned"
         /\ UNCHANGED c_cancel
    ELSE /\ c_cancel' = (c_pc # "done")
         /\ stop_pc' = "joining"
         /\ UNCHANGED connection_state

\* BaseConnector.stop up to its first await (ws.close() starts closing the
\* socket _ws refers to).
StopBegin ==
    /\ stop_pc = "idle"
    /\ c_running' = FALSE
    /\ pc_at_stop' = c_pc
    /\ sock' = IF c_ws = "set" /\ sock = "open" THEN "closed" ELSE sock
    /\ IF c_ws = "set"
       THEN /\ stop_pc' = "closing"
            /\ UNCHANGED <<connection_state, c_cancel>>
       ELSE StopTaskPhase
    /\ UNCHANGED <<c_ws, c_pc, session_error, reconnect_delay_ms, delay_ms,
                   reconnect_count, last_error, clock_ms, session_connected,
                   cb_after_stop>>
    /\ UNCHANGED telemetryVars
    /\ UNCHANGED builderVars
    /\ UNCHANGED otherThanConn

\* stop(): `await self._ws.close()` returned.
StopClosed ==
    /\ stop_pc = "closing"
    /\ c_ws' = "none"
    /\ StopTaskPhase
    /\ UNCHANGED <<c_running, c_pc, sock, session_error, pc_at_stop, reconnect_delay_ms, delay_ms,
                   reconnect_count, last_error, clock_ms, session_connected,
                   cb_after_stop>>
    /\ UNCHANGED telemetryVars
    /\ UNCHANGED builderVars
    /\ UNCHANGED otherThanConn

\* stop(): `await self._task` returned; DISCONNECTED is set (on_state_change
\* runs inside stop) and stop returns.
StopJoin ==
    /\ stop_pc = "joining"
    /\ c_pc = "done"
    /\ connection_state' = "disconnected"
    /\ stop_pc' = "returned"
    /\ UNCHANGED <<c_running, c_ws, sock, c_pc, c_cancel, reconnect_delay_ms,
                   delay_ms, reconnect_count, last_error, clock_ms,
                   session_connected, session_error, pc_at_stop,
                   cb_after_stop>>
    /\ UNCHANGED telemetryVars
    /\ UNCHANGED builderVars
    /\ UNCHANGED otherThanConn

InitConn == BarIdle /\ FilterIdle /\ ConnIdle /\ AggIdle /\ BuildIdle /\ PersistIdle
NextConn ==
    \/ ConnStart
    \/ TaskBegin
    \/ ConnectOK
    \/ ConnectFail
    \/ SendOK
    \/ SendFail
    \/ Receive
    \/ SocketDrop
    \/ BackoffDone
    \/ Cancelled
    \/ StopBegin
    \/ StopClosed
    \/ StopJoin
SpecConn == InitConn /\ [][NextConn]_vars

\* ------------------------------------------------------------------------
\* aggregator/composite_aggregator.py: start(), stop(), the connectors'
\* bar callbacks and the _composite_loop task
\* ------------------------------------------------------------------------
otherThanAgg == <<barVars, filterVars, connVars, buildVars, persistVars>>

\* The instants of the wall clock that are told apart: the seconds of every
\* minute up to the end of the grace sleep and of the exception handler's
\* one-second sleep that may follow it.
NextInstant(t) ==
    IF t % BAR_INTERVAL_SECONDS <= GRACE_SECONDS THEN t + 1
    ELSE ((t \div BAR_INTERVAL_SECONDS) + 1) * BAR_INTERVAL_SECONDS

\* A bar time that counts down as the clock advances.
CompositeBarTime_Reversed(tick) == 2 * BAR_INTERVAL_SECONDS - tick

\* bar_time = now - BAR_INTERVAL_SECONDS
CompositeBarTime(tick) == tick - BAR_INTERVAL_SECONDS

\* _handle_bar_complete
handle_bar_complete(key, bar) ==
    IF key \in connectors THEN [bar_buffers EXCEPT ![key] = bar] ELSE bar_buffers

CollectVenueBars_AnyMinute(asset, market_type, bar_time) ==
    [v \in Range(VenuesFor(market_type)) |->
        LET key == <<v, asset, market_type>>
        IN IF key \in connectors THEN bar_buffers[key] ELSE NoBar]

\* venue_bars of _compute_single_composite
CollectVenueBars(asset, market_type, bar_time) ==
    [v \in Range(VenuesFor(market_type)) |->
        LET key == <<v, asset, market_type>>
        IN IF key \in connectors /\ bar_buffers[key].time = bar_time
           THEN bar_buffers[key] ELSE NoBar]

\* venue_state of _compute_single_composite
CollectVenueState(asset, market_type, readings) ==
    [v \in Range(VenuesFor(market_type)) |->
        LET key == <<v, asset, market_type>>
        IN IF key \in connectors THEN readings[key]
           ELSE [is_connected |-> FALSE, last_update_ms |-> None]]

store_composite_bar_Unbounded(buffer, key, bar) ==
    [buffer EXCEPT ![key] = Append(@, bar)]

\* _store_composite_bar: the deque of the bar's (asset, market_type), created
\* with maxlen=MAX_IN_MEMORY_BARS when missing, takes the bar.
store_composite_bar(buffer, key, bar) ==
    [buffer EXCEPT ![key] = DequeAppend(@, bar, MAX_IN_MEMORY_BARS)]

\* _compute_single_composite from _store_composite_bar on: the composite is
\* stored and the sinks are invoked; raise_at names the sink call that
\* raises, if any.
invoke_sinks(st, key, bar_time, venue_bars, built, tuples, raise_at) ==
    LET composite_raises == raise_at = [key |-> key, sink |-> "composite"]
        venue_called == ~composite_raises /\ tuples # <<>>
        venue_raises == venue_called /\ raise_at = [key |-> key, sink |-> "venue_bars"]
    IN [last_composite_times |->
            [st.last_composite_times EXCEPT ![key] = bar_time],
        composite_bar_buffer |->
            store_composite_bar(st.composite_bar_buffer, key, built.composite),
        emit_log |-> [st.emit_log EXCEPT
                         ![key] = Append(@, [bar_time |-> bar_time,
                                             after_restart |-> a_ghost.restarted])],
        last_emit |->
            [st.last_emit EXCEPT
                ![key] = [venue_bars |-> venue_bars,
                          close_included |->
                              {built.close_result.venues[i].venue :
                                  i \in {j \in 1..Len(built.close_result.venues) :
                                            built.close_result.venues[j].included}},
                          venue_bar_tuples |-> tuples,
                          venue_bars_called |-> venue_called]],
        raised |-> composite_raises \/ venue_raises,
        invoked |-> TRUE]

\* _compute_single_composite from _build_composite's return on.
emit_composite(st, key, bar_time, venue_bars, built, raise_at) ==
    invoke_sinks(st, key, bar_time, venue_bars, built,
                 prepare_venue_bars_for_persistence(VenuesFor(key[2]), venue_bars,
                                                    built.close_result),
                 raise_at)

\* _compute_single_composite on the aggregator fields gathered in st.
compute_single_composite(st, key, bar_time, readings, raise_at) ==
    IF st.last_composite_times[key] = bar_time THEN st
    ELSE emit_composite(
             st, key, bar_time,
             CollectVenueBars(key[1], key[2], bar_time),
             build_composite(key[1], key[2], bar_time, VenuesFor(key[2]),
                             CollectVenueBars(key[1], key[2], bar_time),
                             CollectVenueState(key[1], key[2], readings)),
             raise_at)

\* _compute_composites: every (asset, market_type) in order, until a call raises
RECURSIVE compute_composites(_, _, _, _, _)
compute_composites(st, k, bar_time, readings, raise_at) ==
    IF k > Len(CompositeKeySeq) \/ st.raised THEN st
    ELSE compute_composites(
             compute_single_composite(st, CompositeKeySeq[k], bar_time,
                                      readings, raise_at),
             k + 1, bar_time, readings, raise_at)

\* start(): connectors and buffers are created, the task is created.
AggStart ==
    /\ ~a_running
    /\ a_stop_pc \in {"idle", "returned"}
    /\ a_running' = TRUE
    /\ connectors' = {k \in ConfiguredKeys : make_connector(k[1], k[3])}
    /\ bar_buffers' = [k \in ConfiguredKeys |-> NoBar]
    /\ a_pc' = "created"
    /\ a_cancel' = FALSE
    /\ a_stop_pc' = "idle"
    /\ UNCHANGED <<wall_clock, sleep_until, tick_now, last_composite_times,
                   composite_bar_buffer, emit_log, last_emit, a_cb_after_stop>>
    /\ a_ghost' = [restarted |-> a_ghost.restarted \/ a_stop_pc = "returned",
                   pc_at_stop |-> "none", bar_during_stop |-> FALSE]
    /\ UNCHANGED otherThanAgg

\* _composite_loop: the `while self._running` test and, when it passes,
\* _wait_for_second_boundary up to its sleep.
CompositeLoopTop ==
    IF a_running
    THEN /\ a_pc' = "wait_second"
         /\ sleep_until' = wall_clock + 1
    ELSE /\ a_pc' = "done"
         /\ UNCHANGED sleep_until

AggTaskBegin ==
    /\ a_pc = "created"
    /\ ~a_cancel
    /\ CompositeLoopTop
    /\ UNCHANGED <<a_running, a_cancel, a_stop_pc, wall_clock, tick_now,
                   connectors, bar_buffers, last_composite_times,
                   composite_bar_buffer, emit_log, last_emit, a_cb_after_stop,
                   a_ghost>>
    /\ UNCHANGED otherThanAgg

\* The second-boundary sleep is over: the minute test.
AggWaitDone ==
    /\ a_pc = "wait_second"
    /\ ~a_cancel
    /\ wall_clock >= sleep_until
    /\ IF ~a_running
       THEN /\ a_pc' = "done"
            /\ UNCHANGED <<tick_now, sleep_until>>
       ELSE IF wall_clock % BAR_INTERVAL_SECONDS = 0
            THEN /\ tick_now' = wall_clock
                 /\ a_pc' = "grace"
                 /\ sleep_until' = wall_clock + GRACE_SECONDS
            ELSE /\ CompositeLoopTop
                 /\ UNCHANGED tick_now
    /\ UNCHANGED <<a_running, a_cancel, a_stop_pc, wall_clock,
                   connectors, bar_buffers, last_composite_times,
                   composite_bar_buffer, emit_log, last_emit, a_cb_after_stop,
                   a_ghost>>
    /\ UNCHANGED otherThanAgg

\* A loop without the `except Exception` handler: an exception raised under
\* _compute_composites leaves _composite_loop and ends the task.
AfterCompute_Propagates(st) ==
    /\ last_composite_times' = st.last_composite_times
    /\ composite_bar_buffer' = st.composite_bar_buffer
    /\ emit_log' = st.emit_log
    /\ last_emit' = st.last_emit
    /\ a_cb_after_stop' =
           (a_cb_after_stop \/ (st.invoked /\ a_stop_pc = "returned"))
    /\ IF st.raised
       THEN /\ a_pc' = "done"
            /\ UNCHANGED sleep_until
       ELSE CompositeLoopTop

\* _composite_loop after _compute_composites returned or raised: the fields
\* it left, then the exception handler's sleep or the next iteration.
AfterCompute(st) ==
    /\ last_composite_times' = st.last_composite_times
    /\ composite_bar_buffer' = st.composite_bar_buffer
    /\ emit_log' = st.emit_log
    /\ last_emit' = st.last_emit
    /\ a_cb_after_stop' =
           (a_cb_after_stop \/ (st.invoked /\ a_stop_pc = "returned"))
    /\ IF st.raised
       THEN /\ a_pc' = "error_sleep"
            /\ sleep_until' = wall_clock + 1
       ELSE CompositeLoopTop

\* The grace sleep is over: _compute_composites for the minute that ended,
\* then the loop's exception handler or its next iteration.
AggGraceDone ==
    /\ a_pc = "grace"
    /\ ~a_cancel
    /\ wall_clock >= sleep_until
    /\ \E raise_at \in RaiseChoices :
       \E readings \in AggReadings(tick_now * 1000) :
          AfterCompute(compute_composites(
                           [last_composite_times |-> last_composite_times,
                            composite_bar_buffer |-> composite_bar_buffer,
                            emit_log |-> emit_log,
                            last_emit |-> last_emit,
                            raised |-> FALSE,
                            invoked |-> FALSE],
                           1, CompositeBarTime(tick_now), readings, raise_at))
    /\ tick_now' = None
    /\ UNCHANGED <<a_running, a_cancel, a_stop_pc, wall_clock,
                   connectors, bar_buffers>>
    /\ UNCHANGED otherThanAgg
    /\ UNCHANGED a_ghost

\* `except Exception`: the one-second sleep is over.
AggErrorSleepDone ==
    /\ a_pc = "error_sleep"
    /\ ~a_cancel
    /\ wall_clock >= sleep_until
    /\ CompositeLoopTop
    /\ UNCHANGED <<a_running, a_cancel, a_stop_pc, wall_clock, tick_now,
                   connectors, bar_buffers, last_composite_times,
                   composite_bar_buffer, emit_log, last_emit, a_cb_after_stop,
                   a_ghost>>
    /\ UNCHANGED otherThanAgg

\* CancelledError is delivered where the task is suspended.
AggCancelled ==
    /\ a_cancel
    /\ a_pc \in {"created", "wait_second", "grace", "error_sleep"}
    /\ a_pc' = "done"
    /\ a_cancel' = FALSE
    /\ tick_now' = None
    /\ UNCHANGED <<a_running, a_stop_pc, wall_clock, sleep_until,
                   connectors, bar_buffers, last_composite_times,
                   composite_bar_buffer, emit_log, last_emit, a_cb_after_stop,
                   a_ghost>>
    /\ UNCHANGED otherThanAgg

\* stop() going on to the connectors without cancelling or awaiting the task.
StopCompositeTask_NoCancel ==
    /\ a_stop_pc' = "stopping_connectors"
    /\ UNCHANGED a_cancel

\* stop(): `if self._composite_task:` cancel it and await it.
StopCompositeTask ==
    IF a_pc # "none"
    THEN /\ a_cancel' = (a_pc # "done")
         /\ a_stop_pc' = "joining"
    ELSE /\ a_stop_pc' = "stopping_connectors"
         /\ UNCHANGED a_cancel

AggStopBegin ==
    /\ a_stop_pc = "idle"
    /\ a_running
    /\ a_running' = FALSE
    /\ StopCompositeTask
    /\ UNCHANGED <<a_pc, wall_clock, sleep_until, tick_now,
                   connectors, bar_buffers, last_composite_times,
                   composite_bar_buffer, emit_log, last_emit, a_cb_after_stop>>
    /\ a_ghost' = [a_ghost EXCEPT !.pc_at_stop = a_pc, !.bar_during_stop = FALSE]
    /\ UNCHANGED otherThanAgg

\* stop(): `await self._composite_task` returns; the task is forgotten.
AggStopJoined ==
    /\ a_stop_pc = "joining"
    /\ a_pc = "done"
    /\ a_pc' = "none"
    /\ a_stop_pc' = "stopping_connectors"
    /\ UNCHANGED <<a_running, a_cancel, wall_clock, sleep_until, tick_now,
                   connectors, bar_buffers, last_composite_times,
                   composite_bar_buffer, emit_log, last_emit, a_cb_after_stop,
                   a_ghost>>
    /\ UNCHANGED otherThanAgg

\* stop(): every connector.stop() has returned; both dictionaries are cleared.
AggStopConnectors ==
    /\ a_stop_pc = "stopping_connectors"
    /\ connectors' = {}
    /\ bar_buffers' = [k \in ConfiguredKeys |-> NoBar]
    /\ a_stop_pc' = "returned"
    /\ UNCHANGED <<a_running, a_pc, a_cancel, wall_clock, sleep_until, tick_now,
                   last_composite_times, composite_bar_buffer, emit_log,
                   last_emit, a_cb_after_stop,
                   a_ghost>>
    /\ UNCHANGED otherThanAgg

\* time.time() advances.
Tick ==
    /\ wall_clock < MaxMinutes * BAR_INTERVAL_SECONDS + GRACE_SECONDS
    /\ wall_clock' = NextInstant(wall_clock)
    /\ UNCHANGED <<a_running, a_pc, a_cancel, a_stop_pc, sleep_until, tick_now,
                   connectors, bar_buffers, last_composite_times,
                   composite_bar_buffer, emit_log, last_emit, a_cb_after_stop,
                   a_ghost>>
    /\ UNCHANGED otherThanAgg

\* A bar handler that, unlike _handle_bar_complete, emits the composite of a
\* minute again when a venue bar for an already computed minute arrives.
VenueBarComplete_Reemit ==
    /\ wall_clock >= BAR_INTERVAL_SECONDS
    /\ \E key \in connectors, shape \in AggShapes :
          LET bar == AggBar(key[1],
                            floor_to_minute(wall_clock * 1000) - BAR_INTERVAL_SECONDS,
                            shape)
              k == <<key[2], key[3]>>
              late == last_composite_times[k] = bar.time
          IN /\ bar_buffers[key].time < bar.time
             /\ bar_buffers' = handle_bar_complete(key, bar)
             /\ emit_log' =
                   IF late
                   THEN [emit_log EXCEPT
                           ![k] = Append(@, [bar_time |-> bar.time,
                                             after_restart |-> a_ghost.restarted])]
                   ELSE emit_log
    /\ UNCHANGED <<a_running, a_pc, a_cancel, a_stop_pc, wall_clock, sleep_until,
                   tick_now, connectors, last_composite_times,
                   composite_bar_buffer, last_emit, a_cb_after_stop>>
    /\ a_ghost' = [a_ghost EXCEPT
                      !.bar_during_stop =
                          @ \/ a_stop_pc \in {"joining", "stopping_connectors"}]
    /\ UNCHANGED otherThanAgg

\* A live connector's bar builder completes the bar of the previous minute
\* and calls on_bar_complete.
VenueBarComplete ==
    /\ wall_clock >= BAR_INTERVAL_SECONDS
    /\ \E key \in connectors, shape \in AggShapes :
          LET bar == AggBar(key[1],
                            floor_to_minute(wall_clock * 1000) - BAR_INTERVAL_SECONDS,
                            shape)
          IN /\ bar_buffers[key].time < bar.time
             /\ bar_buffers' = handle_bar_complete(key, bar)
    /\ UNCHANGED <<a_running, a_pc, a_cancel, a_stop_pc, wall_clock, sleep_until,
                   tick_now, connectors, last_composite_times,
                   composite_bar_buffer, emit_log, last_emit, a_cb_after_stop>>
    /\ a_ghost' = [a_ghost EXCEPT
                      !.bar_during_stop =
                          @ \/ a_stop_pc \in {"joining", "stopping_connectors"}]
    /\ UNCHANGED otherThanAgg

InitAgg == BarIdle /\ FilterIdle /\ ConnIdle /\ AggIdle /\ BuildIdle /\ PersistIdle
NextAgg ==
    \/ AggStart
    \/ AggTaskBegin
    \/ AggWaitDone
    \/ AggGraceDone
    \/ AggErrorSleepDone
    \/ AggCancelled
    \/ AggStopBegin
    \/ AggStopJoined
    \/ AggStopConnectors
    \/ Tick
    \/ VenueBarComplete
SpecAgg == InitAgg /\ [][NextAgg]_vars

\* ------------------------------------------------------------------------
\* CompositeAggregator._build_composite applied to bounded inputs
\* ------------------------------------------------------------------------
\* What _build_composite returned, recorded.
Built(built) ==
    [done |-> TRUE, composite |-> built.composite,
     close_result |-> built.close_result]

ApplyBuild ==
    /\ ~b_built.done
    /\ b_built' = Built(build_composite("BTC", b_market, BuildBarTime, BuildVenues,
                                        b_venue_bars, b_venue_state))
    /\ UNCHANGED <<b_market, b_venue_bars, b_venue_state>>
    /\ UNCHANGED <<barVars, filterVars, connVars, aggVars, persistVars>>

InitBuild ==
    /\ PersistIdle
    /\ BarIdle
    /\ FilterIdle
    /\ ConnIdle
    /\ AggIdle
    /\ b_market \in Range(MarketTypes)
    /\ \E shapes \in [Range(BuildVenues) -> BarShapes \cup {"none"}] :
          b_venue_bars = [v \in Range(BuildVenues) |->
                             IF shapes[v] = "none" THEN NoBar
                             ELSE AggBar(v, BuildBarTime, shapes[v])]
    /\ b_venue_state \in [Range(BuildVenues) ->
                             ConnectorReadings((BuildBarTime + BAR_INTERVAL_SECONDS) * 1000)]
    /\ b_built = NotBuilt
NextBuild == ApplyBuild
SpecBuild == InitBuild /\ [][NextBuild]_vars

\* ------------------------------------------------------------------------
\* CompositeBarRepository: the composite_bars upsert
\* ------------------------------------------------------------------------
MaxUpserts == 3
MaxBatch == 2

\* A composite bar as the callers of the repository build them: a gap bar has
\* no prices and no volume.
RepoBar(time, market_type, is_gap, is_backfilled) ==
    [time |-> time,
     open |-> IF is_gap THEN None ELSE 95100,
     high |-> IF is_gap THEN None ELSE 95100,
     low |-> IF is_gap THEN None ELSE 95100,
     close |-> IF is_gap THEN None ELSE 95100,
     volume |-> IF is_gap THEN 0 ELSE 4,
     degraded |-> TRUE,
     is_gap |-> is_gap,
     is_backfilled |-> is_backfilled,
     asset |-> "BTC",
     market_type |-> market_type]

RepoBars ==
    {RepoBar(t, m, g, b) :
        t \in RepoTimes, m \in Range(MarketTypes), g \in BOOLEAN, b \in BOOLEAN}

\* ON CONFLICT (time, asset, market_type)
RowKey(bar) == <<bar.time, bar.asset, bar.market_type>>

\* An upsert whose is_backfilled is plainly EXCLUDED.is_backfilled.
upsert_is_backfilled_Overwrite(row, bar) == bar.is_backfilled

\* An upsert without the gap-repair WHEN of the CASE.
upsert_is_backfilled_NoRepair(row, bar) ==
    IF row.is_backfilled THEN TRUE ELSE bar.is_backfilled

\* is_backfilled = CASE WHEN composite_bars.is_backfilled = TRUE THEN TRUE
\*   WHEN composite_bars.is_gap = TRUE AND EXCLUDED.is_gap = FALSE THEN TRUE
\*   ELSE EXCLUDED.is_backfilled END
upsert_is_backfilled(row, bar) ==
    IF row.is_backfilled THEN TRUE
    ELSE IF row.is_gap /\ ~bar.is_gap THEN TRUE
    ELSE bar.is_backfilled

upsert_is_gap_Keep(row, bar) == row.is_gap

\* is_gap = EXCLUDED.is_gap
upsert_is_gap(row, bar) == bar.is_gap

\* INSERT ... ON CONFLICT ... DO UPDATE SET: the table after one statement.
upsert(tbl, bar) ==
    [tbl EXCEPT ![RowKey(bar)] =
        [exists |-> TRUE,
         open |-> bar.open, high |-> bar.high, low |-> bar.low,
         close |-> bar.close, volume |-> bar.volume,
         degraded |-> bar.degraded,
         is_gap |-> IF @.exists THEN upsert_is_gap(@, bar) ELSE bar.is_gap,
         is_backfilled |-> IF @.exists THEN upsert_is_backfilled(@, bar)
                           ELSE bar.is_backfilled]]

RECURSIVE upsert_all(_, _)
upsert_all(tbl, bars) ==
    IF bars = <<>> THEN tbl
    ELSE upsert_all(upsert(tbl, Head(bars)), Tail(bars))

\* The row the last statement of a batch found.
RECURSIVE row_before_last(_, _)
row_before_last(tbl, bars) ==
    IF Len(bars) = 1 THEN tbl[RowKey(bars[1])]
    ELSE row_before_last(upsert(tbl, Head(bars)), Tail(bars))

\* CompositeBarRepository.insert(bar); returns (xmax = 0), true for a new row.
insert(bar) ==
    /\ table' = upsert(table, bar)
    /\ upserts' = upserts + 1
    /\ last_upsert' = [done |-> TRUE, bar |-> bar, prior |-> table[RowKey(bar)]]
    /\ last_inserted' = ~table[RowKey(bar)].exists
    /\ UNCHANGED last_count

\* CompositeBarRepository.insert_batch(bars): one transaction.
insert_batch(bars) ==
    IF bars = <<>>
    THEN /\ last_count' = 0
         /\ UNCHANGED <<table, upserts, last_upsert, last_inserted>>
    ELSE /\ table' = upsert_all(table, bars)
         /\ upserts' = upserts + Len(bars)
         /\ last_upsert' = [done |-> TRUE, bar |-> bars[Len(bars)],
                            prior |-> row_before_last(table, bars)]
         /\ last_count' = Len(bars)
         /\ UNCHANGED last_inserted

otherThanRepo == <<barVars, filterVars, connVars, aggVars, buildVars, backfillVars>>

RepoInsert ==
    /\ upserts < MaxUpserts
    /\ \E bar \in RepoBars : insert(bar)
    /\ UNCHANGED otherThanRepo

RepoInsertBatch ==
    /\ \E n \in 0..MaxBatch :
          /\ upserts + n <= MaxUpserts
          /\ \E bars \in [1..n -> RepoBars] : insert_batch(bars)
    /\ UNCHANGED otherThanRepo

InitRepo == BarIdle /\ FilterIdle /\ ConnIdle /\ AggIdle /\ BuildIdle /\ PersistIdle
NextRepo ==
    \/ RepoInsert
    \/ RepoInsertBatch
SpecRepo == InitRepo /\ [][NextRepo]_vars

\* ------------------------------------------------------------------------
\* BackfillService.backfill_gaps
\* ------------------------------------------------------------------------
ENABLED_SPOT_VENUES == <<"binance", "coinbase", "okx", "kraken">>
ENABLED_PERP_VENUES == <<"binance", "okx", "bybit">>
REALTIME_VENUES == {"binance", "coinbase", "kraken", "okx", "bybit"}
BACKFILL_VENUES == {"binance", "kraken", "okx", "bybit"}
BACKFILL_FETCHERS_IMPLEMENTED == {"binance", "kraken", "okx", "bybit"}
BACKFILL_EXCLUDED_VENUES == REALTIME_VENUES \ BACKFILL_VENUES

get_enabled_venues(market_type) ==
    IF market_type = "spot" THEN ENABLED_SPOT_VENUES ELSE ENABLED_PERP_VENUES

get_backfill_venues(market_type) ==
    SelectSeq(get_enabled_venues(market_type),
              LAMBDA v : v \in BACKFILL_VENUES /\ v \in BACKFILL_FETCHERS_IMPLEMENTED)

\* The members of the VenueId enum; VenueId(venue_str) raises for any other
\* string.
VenueIds == {"binance", "coinbase", "kraken", "okx", "bybit"}

\* The fetchers that return [] at once for any market but spot.
SpotOnlyFetchers == {"coinbase", "kraken"}

\* The `venues` argument of backfill_gaps: None or a list.
VenuesArgs ==
    {[given |-> FALSE, list |-> <<>>],
     [given |-> TRUE, list |-> <<"binance", "coinbase">>],
     [given |-> TRUE, list |-> <<"okx">>],
     [given |-> TRUE, list |-> <<"binance", "gemini", "okx">>]}

\* What fetching one venue's trades of the minute and building its bar comes
\* to: the fetcher raised, no trade of the minute came back, or a bar.
FetchOutcomes == {"error", "empty", "flat", "rise"}

\* The outcomes the venues of the list can have for the market.
OutcomesFor(venues, market_type) ==
    {got \in [1..Len(venues) -> FetchOutcomes] :
        \A i \in 1..Len(venues) :
           /\ venues[i] \notin VenueIds => got[i] = "error"
           /\ (venues[i] \in SpotOnlyFetchers /\ market_type # "spot") =>
                 got[i] = "empty"}

\* _fetch_trades_for_minute: the venues whose REST fetcher is called for the
\* list.
fetchers_invoked(venues) == {v \in Range(venues) : v \in VenueIds}

\* The keys of valid_venue_bars, in insertion order.
valid_venues(venues, got) ==
    LET idx == SelectIdx(venues, LAMBDA i : /\ venues[i] \in VenueIds
                                            /\ got[i] \notin {"error", "empty"})
    IN [k \in 1..Len(idx) |-> venues[idx[k]]]

\* The number of venues of the list whose fetcher raised; _backfill_single_gap
\* logs a warning for each and goes on to the next venue.
fetch_errors(venues, got) ==
    Cardinality({i \in 1..Len(venues) : venues[i] \in VenueIds /\ got[i] = "error"})

\* valid_venue_bars
valid_bars(venues, got, gap_time) ==
    [v \in {venues[i] : i \in {j \in 1..Len(venues) :
                                  /\ venues[j] \in VenueIds
                                  /\ got[j] \notin {"error", "empty"}}} |->
        AggBar(v, gap_time, got[CHOOSE i \in 1..Len(venues) : venues[i] = v])]

\* The nested median of _build_composite_from_venue_bars.
backfill_median(values) ==
    LET s == SortPrices(values)
        n == Len(s)
    IN IF n = 0 THEN 0
       ELSE IF n % 2 = 0 THEN (s[n \div 2] + s[n \div 2 + 1]) \div 2
       ELSE s[n \div 2 + 1]

NoComposite == [time |-> None]

\* BackfillService._build_composite_from_venue_bars. excluded_venues is
\* built by iterating over a set, so its order is not told apart here.
build_composite_from_venue_bars(valid, bars, bar_time, asset, market_type) ==
    IF valid = <<>> THEN NoComposite
    ELSE [time |-> bar_time,
          open |-> backfill_median([i \in 1..Len(valid) |-> bars[valid[i]].open]),
          high |-> backfill_median([i \in 1..Len(valid) |-> bars[valid[i]].high]),
          low |-> backfill_median([i \in 1..Len(valid) |-> bars[valid[i]].low]),
          close |-> backfill_median([i \in 1..Len(valid) |-> bars[valid[i]].close]),
          volume |-> SeqSum([i \in 1..Len(valid) |-> bars[valid[i]].volume]),
          buy_volume |-> SeqSum([i \in 1..Len(valid) |-> bars[valid[i]].buy_volume]),
          sell_volume |-> SeqSum([i \in 1..Len(valid) |-> bars[valid[i]].sell_volume]),
          buy_count |-> SeqSum([i \in 1..Len(valid) |-> bars[valid[i]].buy_count]),
          sell_count |-> SeqSum([i \in 1..Len(valid) |-> bars[valid[i]].sell_count]),
          degraded |-> Len(valid) < 3,
          is_gap |-> FALSE,
          is_backfilled |-> TRUE,
          included_venues |-> valid,
          excluded_venues |->
              {[venue |-> v,
                reason |-> IF v \in BACKFILL_EXCLUDED_VENUES
                           THEN "backfill_unavailable" ELSE "no_data"] :
                  v \in Range(get_enabled_venues(market_type)) \ Range(valid)},
          asset |-> asset,
          market_type |-> market_type]

\* _backfill_single_gap: "Mark as backfilled".
mark_backfilled(composite) ==
    [composite EXCEPT !.is_gap = FALSE, !.is_backfilled = TRUE]

\* A quorum test that lets a single venue through.
insufficient_venues_One(valid) == Len(valid) < 1

\* if len(valid_venue_bars) < 2
insufficient_venues(valid) == Len(valid) < 2

\* backfill_gaps counting a minute without repair in no counter.
record_gap_outcome_NotCounted(result, venue_count) ==
    IF venue_count > 0
    THEN [result EXCEPT !.bars_repaired = @ + 1,
                        !.venue_bars_inserted = @ + venue_count]
    ELSE result

\* backfill_gaps: the counters after _backfill_single_gap returned.
record_gap_outcome(result, venue_count) ==
    IF venue_count > 0
    THEN [result EXCEPT !.bars_repaired = @ + 1,
                        !.venue_bars_inserted = @ + venue_count]
    ELSE [result EXCEPT !.bars_failed = @ + 1]

\* backfill_gaps: `except Exception` around one gap.
record_gap_error(result) ==
    [result EXCEPT !.bars_failed = @ + 1, !.errors = @ + 1]

\* A try block around the whole loop: an exception under one gap ends the
\* loop.
gaps_after_error_Abort(gaps) == <<>>

\* backfill_gaps: the try block is inside the loop, so after an exception
\* under one gap the loop goes on with the gaps that remain.
gaps_after_error(gaps) == Tail(gaps)

\* get_gaps: `limit: int = 1000`, which backfill_gaps leaves at its default.
GET_GAPS_LIMIT == 1000

\* The minutes of [start_time, end_time), ascending; both are multiples of
\* BAR_INTERVAL_SECONDS here.
WindowMinutes(start_time, end_time) ==
    [i \in 1..((end_time - start_time) \div BAR_INTERVAL_SECONDS) |->
        start_time + (i - 1) * BAR_INTERVAL_SECONDS]

\* The table has a row for the key with is_gap = TRUE.
IsGapRow(tbl, key) ==
    /\ key \in DOMAIN tbl
    /\ tbl[key].exists
    /\ tbl[key].is_gap

\* The tuple with the first n elements of s at most.
FirstN(s, n) == SubSeq(s, 1, Min2(Len(s), n))

\* CompositeBarRepository.get_gaps: the times of the gap rows in
\* [start_time, end_time), ascending, LIMIT rows at most.
get_gaps(tbl, asset, market_type, start_time, end_time) ==
    FirstN(SelectSeq(WindowMinutes(start_time, end_time),
                     LAMBDA t : IsGapRow(tbl, <<t, asset, market_type>>)),
           GET_GAPS_LIMIT)

\* The number of gap rows of the market in [start_time, end_time).
gap_rows_in(tbl, asset, market_type, start_time, end_time) ==
    Cardinality({k \in DOMAIN tbl :
                    /\ k[2] = asset /\ k[3] = market_type
                    /\ k[1] >= start_time /\ k[1] < end_time
                    /\ tbl[k].exists /\ tbl[k].is_gap})

\* get_integrity_stats: the counts over the rows of the market in
\* [start_time, end_time); a minute without a row is an implicit gap.
get_integrity_stats(tbl, asset, market_type, start_time, end_time) ==
    LET rows == {k \in DOMAIN tbl :
                    /\ k[2] = asset /\ k[3] = market_type
                    /\ k[1] >= start_time /\ k[1] < end_time
                    /\ tbl[k].exists}
        expected_bars == (end_time - start_time) \div 60
        actual_bars == Cardinality(rows)
        gaps == Cardinality({k \in rows : tbl[k].is_gap})
        missing_bars == Max2(0, expected_bars - actual_bars)
    IN [expected_bars |-> expected_bars, actual_bars |-> actual_bars,
        gaps |-> gaps, missing_bars |-> missing_bars,
        total_gaps |-> gaps + missing_bars]

\* The number of calls of backfill_gaps in one behaviour.
MaxBackfillCalls == 2

\* What is kept of a call of backfill_gaps that returned.
ReturnedCall(market_type, result, started, upserts_now) ==
    [market_type |-> market_type, result |-> result,
     gap_rows |-> started.gap_rows, writes |-> upserts_now - started.upserts]

\* Where a repository call of _backfill_single_gap raises, if one does.
RepoRaises == {"none", "venue_repo", "composite_repo"}

otherThanBackfill == <<barVars, filterVars, connVars, aggVars, buildVars>>

\* backfill_gaps up to its loop: the gaps found and the venues to use.
BackfillBegin(market_type, arg, gaps) ==
    /\ bf_market' = market_type
    /\ bf_result' = [NoBackfillResult EXCEPT !.gaps_found = Len(gaps)]
    /\ bf_gaps' = gaps
    /\ bf_started' = [gap_rows |-> gap_rows_in(table, "BTC", market_type,
                                               bf_window.start_time,
                                               bf_window.end_time),
                      upserts |-> upserts,
                      venues |-> arg]
    /\ IF gaps = <<>>
       THEN /\ bf_pc' = "returned"
            /\ bf_venues' = <<>>
            /\ bf_history' = Append(bf_history,
                                    ReturnedCall(market_type, bf_result',
                                                 bf_started', upserts))
       ELSE /\ bf_pc' = "running"
            /\ bf_venues' = IF arg.given THEN arg.list
                            ELSE get_backfill_venues(market_type)
            /\ UNCHANGED bf_history

\* backfill_gaps is called over the window: for the first time with any
\* market and venues, and again, with the same arguments, after a call that
\* left no gap failed.
BackfillStart ==
    /\ bf_pc \in {"idle", "returned"}
    /\ Len(bf_history) < MaxBackfillCalls
    /\ bf_pc = "returned" => bf_result.bars_failed = 0
    /\ \E market_type \in Range(MarketTypes), arg \in VenuesArgs :
          /\ bf_pc = "returned" => market_type = bf_market /\ arg = bf_started.venues
          /\ BackfillBegin(market_type, arg,
                           get_gaps(table, "BTC", market_type,
                                    bf_window.start_time, bf_window.end_time))
    /\ UNCHANGED <<fetch_log, venue_rows, bf_last, bf_window>>
    /\ UNCHANGED repoVars
    /\ UNCHANGED otherThanBackfill

\* _backfill_single_gap from "Persist venue bars" on, and what backfill_gaps
\* counts for the minute.
WriteRepair(gap_time, valid, bars, composite, raise_at, failed_fetches) ==
    /\ venue_rows' = IF raise_at = "venue_repo" THEN venue_rows
                     ELSE venue_rows \cup
                              {<<valid[i], bf_market, gap_time>> : i \in 1..Len(valid)}
    /\ IF raise_at = "none"
       THEN /\ insert(composite)
            /\ bf_result' = record_gap_outcome(bf_result, Len(valid))
            /\ bf_gaps' = Tail(bf_gaps)
       ELSE /\ UNCHANGED repoVars
            /\ bf_result' = record_gap_error(bf_result)
            /\ bf_gaps' = gaps_after_error(bf_gaps)
    /\ bf_last' = [gap_time |-> gap_time, valid |-> valid, bars |-> bars,
                   composite |-> composite, written |-> raise_at = "none",
                   raised |-> raise_at # "none",
                   fetch_errors |-> failed_fetches]

\* _backfill_single_gap once the venues were fetched, and what backfill_gaps
\* counts for the minute.
backfill_single_gap(gap_time, valid, bars, raise_at, failed_fetches) ==
    IF insufficient_venues(valid)
    THEN /\ bf_result' = record_gap_outcome(bf_result, 0)
         /\ bf_gaps' = Tail(bf_gaps)
         /\ bf_last' = [gap_time |-> gap_time, valid |-> valid, bars |-> bars,
                        composite |-> NoComposite, written |-> FALSE,
                        raised |-> FALSE, fetch_errors |-> failed_fetches]
         /\ UNCHANGED venue_rows
         /\ UNCHANGED repoVars
    ELSE WriteRepair(gap_time, valid, bars,
                     mark_backfilled(
                         build_composite_from_venue_bars(valid, bars, gap_time,
                                                         "BTC", bf_market)),
                     raise_at, failed_fetches)

\* One iteration of the loop of backfill_gaps over the gaps; after the last
\* gap backfill_gaps returns.
BackfillGap ==
    /\ bf_pc = "running"
    /\ \E got \in OutcomesFor(bf_venues, bf_market), raise_at \in RepoRaises :
          backfill_single_gap(Head(bf_gaps), valid_venues(bf_venues, got),
                              valid_bars(bf_venues, got, Head(bf_gaps)), raise_at,
                              fetch_errors(bf_venues, got))
    /\ fetch_log' = fetch_log \cup fetchers_invoked(bf_venues)
    /\ bf_pc' = IF bf_gaps' = <<>> THEN "returned" ELSE "running"
    /\ bf_history' = IF bf_gaps' = <<>>
                     THEN Append(bf_history,
                                 ReturnedCall(bf_market, bf_result', bf_started,
                                              upserts'))
                     ELSE bf_history
    /\ UNCHANGED <<bf_market, bf_venues, bf_window, bf_started>>
    /\ UNCHANGED otherThanBackfill

\* The row the live sink stored for a minute: a gap or a bar, not backfilled.
\* The rows of a minute start alike for both market types.
SeedRow(kind, key) ==
    IF kind = "none" THEN NoRow
    ELSE upsert([k \in RepoKeys |-> NoRow],
                RepoBar(key[1], key[3], kind = "gap", FALSE))[key]

InitBackfill ==
    /\ BarIdle /\ FilterIdle /\ ConnIdle /\ AggIdle /\ BuildIdle
    /\ bf_pc = "idle"
    /\ bf_market = "spot"
    /\ bf_venues = <<>>
    /\ bf_gaps = <<>>
    /\ bf_result = NoBackfillResult
    /\ fetch_log = {}
    /\ venue_rows = {}
    /\ bf_last = NoGapRun
    /\ bf_started = NotStarted
    /\ bf_history = <<>>
    /\ \E start_time \in RepoTimes :
          bf_window = [start_time |-> start_time,
                       end_time |-> MaxRepoMinutes * BAR_INTERVAL_SECONDS]
    /\ \E kinds \in [RepoTimes -> {"none", "gap", "bar"}] :
          table = [k \in RepoKeys |-> SeedRow(kinds[k[1]], k)]
    /\ upserts = 0
    /\ last_upsert = NoUpsert
    /\ last_inserted = FALSE
    /\ last_count = 0
NextBackfill ==
    \/ BackfillStart
    \/ BackfillGap
SpecBackfill == InitBackfill /\ [][NextBackfill]_vars

\* ------------------------------------------------------------------------
\* The live sink writing while backfill_gaps runs
\* ------------------------------------------------------------------------

\* The minute the live sink writes: the one that backfill repairs.
LiveTime == CHOOSE t \in RepoTimes : \A u \in RepoTimes : t <= u

\* _on_composite_bar, run as a task of its own for every emitted composite:
\* repository.insert(bar) of a live bar, a gap or not, never backfilled.
LiveUpsert ==
    /\ upserts < MaxUpserts
    /\ \E market_type \in Range(MarketTypes), is_gap \in BOOLEAN :
          insert(RepoBar(LiveTime, market_type, is_gap, FALSE))
    /\ UNCHANGED otherThanRepo

\* The live sink stored the first minute as a gap, for both market types,
\* and nothing yet for the later ones; the window is all the minutes.
InitInterleave ==
    /\ BarIdle /\ FilterIdle /\ ConnIdle /\ AggIdle /\ BuildIdle
    /\ bf_pc = "idle"
    /\ bf_market = "spot"
    /\ bf_venues = <<>>
    /\ bf_gaps = <<>>
    /\ bf_result = NoBackfillResult
    /\ fetch_log = {}
    /\ venue_rows = {}
    /\ bf_last = NoGapRun
    /\ bf_started = NotStarted
    /\ bf_history = <<>>
    /\ bf_window = [start_time |-> 0,
                    end_time |-> MaxRepoMinutes * BAR_INTERVAL_SECONDS]
    /\ table = [k \in RepoKeys |-> SeedRow(IF k[1] = LiveTime THEN "gap" ELSE "none", k)]
    /\ upserts = 0
    /\ last_upsert = NoUpsert
    /\ last_inserted = FALSE
    /\ last_count = 0

NextInterleave ==
    \/ BackfillStart
    \/ BackfillGap
    \/ LiveUpsert
SpecInterleave == InitInterleave /\ [][NextInterleave]_vars

\* ------------------------------------------------------------------------
\* backfill_gaps over the windows that trigger_backfill permits
\* ------------------------------------------------------------------------

\* trigger_backfill: `max_window = 86400`; a longer window is answered 400.
max_window == 86400

\* The lengths in minutes of the windows tried: short ones, the ones around
\* the limit of get_gaps, and the longest that is permitted.
ScanSizes == {1, 2, GET_GAPS_LIMIT - 1, GET_GAPS_LIMIT, GET_GAPS_LIMIT + 1,
              max_window \div BAR_INTERVAL_SECONDS}

\* Which minutes of the window the live sink stored as gaps.
ScanPatterns == {"all", "odd", "but_first"}

ScanIsGap(pattern, minute) ==
    CASE pattern = "all" -> TRUE
      [] pattern = "odd" -> minute % 2 = 1
      [] OTHER -> minute > 0

\* The row the live sink stored for the key: a gap or a bar, not backfilled.
ScanRow(is_gap, key) ==
    upsert([k \in {key} |-> NoRow], RepoBar(key[1], key[3], is_gap, FALSE))[key]

ScanKeys(size) ==
    {<<m * BAR_INTERVAL_SECONDS, "BTC", mt>> :
        m \in 0..(size - 1), mt \in Range(MarketTypes)}

InitGapScan ==
    /\ BarIdle /\ FilterIdle /\ ConnIdle /\ AggIdle /\ BuildIdle
    /\ bf_pc = "idle"
    /\ bf_market = "spot"
    /\ bf_venues = <<>>
    /\ bf_gaps = <<>>
    /\ bf_result = NoBackfillResult
    /\ fetch_log = {}
    /\ venue_rows = {}
    /\ bf_last = NoGapRun
    /\ bf_started = NotStarted
    /\ bf_history = <<>>
    /\ \E size \in ScanSizes, pattern \in ScanPatterns :
          /\ bf_window = [start_time |-> 0,
                          end_time |-> size * BAR_INTERVAL_SECONDS]
          /\ table = [k \in ScanKeys(size) |->
                         ScanRow(ScanIsGap(pattern, k[1] \div BAR_INTERVAL_SECONDS), k)]
    /\ upserts = 0
    /\ last_upsert = NoUpsert
    /\ last_inserted = FALSE
    /\ last_count = 0

\* backfill_gaps up to its loop, where gaps_found is set.
NextGapScan == BackfillStart
SpecGapScan == InitGapScan /\ [][NextGapScan]_vars

\* ------------------------------------------------------------------------
\* _store_composite_bar on buffers that are full or nearly full
\* ------------------------------------------------------------------------

\* The number of bars stored in one behaviour.
MaxStores == 3

\* The composite of the n-th minute of a market.
NthComposite(market_type, n, is_gap) ==
    RepoBar(n * BAR_INTERVAL_SECONDS, market_type, is_gap, FALSE)

\* The buffers and the record of emissions after the first n[key] minutes of
\* each (asset, market_type) were emitted and stored.
InitBuffer ==
    /\ BarIdle /\ FilterIdle /\ ConnIdle /\ BuildIdle /\ PersistIdle
    /\ a_running = FALSE
    /\ a_pc = "none"
    /\ a_cancel = FALSE
    /\ a_stop_pc = "idle"
    /\ wall_clock = 0
    /\ sleep_until = 0
    /\ tick_now = None
    /\ connectors = {}
    /\ bar_buffers = [k \in ConfiguredKeys |-> NoBar]
    /\ last_emit = [k \in CompositeKeys |-> NoEmit]
    /\ a_cb_after_stop = FALSE
    /\ a_ghost = [restarted |-> FALSE, pc_at_stop |-> "none",
                  bar_during_stop |-> FALSE]
    /\ \E n \in [CompositeKeys -> {0, MAX_IN_MEMORY_BARS - 1, MAX_IN_MEMORY_BARS}] :
          /\ last_composite_times =
                [k \in CompositeKeys |->
                    IF n[k] = 0 THEN None ELSE n[k] * BAR_INTERVAL_SECONDS]
          /\ composite_bar_buffer =
                [k \in CompositeKeys |->
                    [i \in 1..n[k] |-> NthComposite(k[2], i, FALSE)]]
          /\ emit_log =
                [k \in CompositeKeys |->
                    [i \in 1..n[k] |-> [bar_time |-> i * BAR_INTERVAL_SECONDS,
                                        after_restart |-> FALSE]]]

\* The number of minutes the live loop had emitted for the key.
EmittedByLoop(key) ==
    IF last_composite_times[key] = None THEN 0
    ELSE last_composite_times[key] \div BAR_INTERVAL_SECONDS

\* _store_composite_bar(bar) for the next minute of one (asset, market_type).
StoreCompositeBar ==
    /\ \E key \in CompositeKeys, is_gap \in BOOLEAN :
          LET n == Len(emit_log[key]) + 1
          IN /\ n <= EmittedByLoop(key) + MaxStores
             /\ composite_bar_buffer' =
                    store_composite_bar(composite_bar_buffer, key,
                                        NthComposite(key[2], n, is_gap))
             /\ emit_log' = [emit_log EXCEPT
                               ![key] = Append(@, [bar_time |-> n * BAR_INTERVAL_SECONDS,
                                                   after_restart |-> FALSE])]
    /\ UNCHANGED <<a_running, a_pc, a_cancel, a_stop_pc, wall_clock, sleep_until,
                   tick_now, connectors, bar_buffers, last_composite_times,
                   last_emit, a_cb_after_stop, a_ghost>>
    /\ UNCHANGED otherThanAgg

NextBuffer == StoreCompositeBar
SpecBuffer == InitBuffer /\ [][NextBuffer]_vars

\* ========================================================================
\* Properties
\* ========================================================================

\* An add_trade step whose trade belongs to a minute before the current bar.
LateTradeStep ==
    /\ calls' = calls + 1
    /\ builder.accumulator # NoAcc
    /\ floor_to_minute(last_trade'.timestamp) < builder.accumulator.bar_time

\* C3: a trade whose minute is earlier than the current bar's time is
\* dropped: the forming bar, the completed bars and the emitted bars are all
\* left as they were.
C3_LateTradeDropped ==
    [][LateTradeStep =>
         /\ builder'.accumulator = builder.accumulator
         /\ builder'.completed_bars = builder.completed_bars
         /\ emitted_bars' = emitted_bars]_vars

\* A connected venue with a price whose age exceeds its stale threshold.
IsStaleInput(inp, now, market_type) ==
    /\ inp.is_connected
    /\ inp.price # None
    /\ inp.last_update_ms # None
    /\ now - inp.last_update_ms > STALE_THRESHOLDS_MS[inp.venue]

\* C4: a stale venue is excluded with reason STALE (never OUTLIER), and the
\* result does not depend on its price: with any other price in its place
\* the composite price and every other venue's contribution (inclusion,
\* reason, deviation from the median) are the same.
C4_StaleExcludedBeforeMedian ==
    f_result # NoResult =>
        \A i \in 1..Len(f_inputs) :
            IsStaleInput(f_inputs[i], f_now, f_market) =>
                /\ f_result.venues[i].exclude_reason = "stale"
                /\ ~f_result.venues[i].included
                /\ \A p \in FilterPrices \ {None} :
                      LET alt == filter_outliers(
                                     [f_inputs EXCEPT ![i].price = p],
                                     f_now, f_market)
                      IN /\ alt.price = f_result.price
                         /\ alt.is_gap = f_result.is_gap
                         /\ \A j \in 1..Len(f_inputs) :
                               j # i => alt.venues[j] = f_result.venues[j]

\* C4 witness: a stale venue far from two fresh concordant venues; the
\* composite is the fresh price.
C4_Witness ==
    /\ f_result # NoResult
    /\ Len(f_inputs) = 3
    /\ \E i \in 1..3 :
          /\ IsStaleInput(f_inputs[i], f_now, f_market)
          /\ f_inputs[i].price = 95100
          /\ \A j \in 1..3 : j # i => /\ f_inputs[j].price = 94100
                                      /\ f_result.venues[j].included
    /\ f_result.price = 94100

IncludedVenues(result) ==
    {i \in 1..Len(result.venues) : result.venues[i].included}

\* C5: is_gap holds exactly when fewer than 2 venues are included, and the
\* composite price is absent exactly when is_gap holds.
C5_GapIffBelowQuorum ==
    f_result # NoResult =>
        /\ f_result.is_gap <=> Cardinality(IncludedVenues(f_result)) < 2
        /\ f_result.price = None <=> f_result.is_gap

\* C5 witness: exactly one surviving venue, so a gap without a price.
C5_Witness ==
    /\ f_result # NoResult
    /\ Cardinality(IncludedVenues(f_result)) = 1
    /\ f_result.is_gap
    /\ f_result.price = None

\* C7: when a session ends with an IO or protocol error the connection
\* state is DISCONNECTED (so is_connected() is false) during the reconnect
\* wait that follows.
C7_ErrorDisconnects ==
    (c_pc = "backoff" /\ session_error) => connection_state = "disconnected"

\* C8: the wait that starts is 1 s after a session that reached CONNECTED
\* and after the first failure, otherwise twice the previous wait capped at
\* 60 s; it is never shorter than 1 s nor longer than 60 s.
C8_BackoffSequence ==
    [][(c_pc' = "backoff" /\ c_pc # "backoff") =>
         /\ delay_ms' = IF session_connected \/ delay_ms = None THEN 1000
                        ELSE Min2(2 * delay_ms, 60000)
         /\ delay_ms' >= 1000
         /\ delay_ms' <= 60000]_vars

\* C8 witness: the eighth consecutive failed attempt waits 60 s again.
C8_Witness ==
    /\ c_pc = "backoff"
    /\ reconnect_count = 8
    /\ delay_ms = 60000
    /\ ~session_connected

\* C9: no callback is invoked once stop() has returned.
C9_NoCallbackAfterStop ==
    stop_pc = "returned" => ~cb_after_stop

\* C9 witness: stop() was called while the receive loop had handled frames
\* and was waiting for more, and has returned.
C9_Witness ==
    /\ stop_pc = "returned"
    /\ pc_at_stop = "receiving"
    /\ message_count > 0
    /\ c_pc = "done"

\* C1: for every (asset, market_type) the bar_time values of successive
\* on_composite_bar invocations are strictly increasing, so that no bar_time
\* is passed twice, over any run of the aggregator, stop() followed by
\* start() included.
C1_EmitStrictlyIncreasing ==
    \A k \in CompositeKeys :
       \A i \in 1..(Len(emit_log[k]) - 1) :
          emit_log[k][i].bar_time < emit_log[k][i + 1].bar_time

\* C1 witness: a composite emitted before a stop() and the next one emitted
\* after the start() that followed it.
C1_Witness ==
    \E k \in CompositeKeys :
       /\ Len(emit_log[k]) >= 2
       /\ ~emit_log[k][1].after_restart
       /\ emit_log[k][2].after_restart
       /\ emit_log[k][1].bar_time = 0
       /\ emit_log[k][2].bar_time = BAR_INTERVAL_SECONDS

\* C2: a composite bar is either a gap with open, high, low and close absent
\* and every flow field zero, or not a gap with open, high, low and close
\* all present.
C2_GapXorFullOHLC ==
    b_built.done =>
       LET c == b_built.composite
       IN \/ /\ c.is_gap
             /\ c.open = None /\ c.high = None /\ c.low = None /\ c.close = None
             /\ c.volume = 0 /\ c.buy_volume = 0 /\ c.sell_volume = 0
             /\ c.buy_count = 0 /\ c.sell_count = 0
          \/ /\ ~c.is_gap
             /\ c.open # None /\ c.high # None /\ c.low # None /\ c.close # None

\* The venues the close result includes.
CloseIncluded ==
    {b_built.close_result.venues[j].venue :
        j \in {i \in 1..Len(b_built.close_result.venues) :
                  b_built.close_result.venues[i].included}}

\* The sum of a bar field over the bars of the venues in S.
FlowSum(S, f(_)) ==
    SeqSum([i \in 1..Len(BuildVenues) |->
               IF BuildVenues[i] \in S THEN f(b_venue_bars[BuildVenues[i]]) ELSE 0])

\* C6: the five flow fields of a non-gap composite bar are the sums of the
\* field over the venue bars of exactly the venues the close result
\* includes.
C6_FlowFromCloseIncluded ==
    (b_built.done /\ ~b_built.composite.is_gap) =>
       LET c == b_built.composite
       IN /\ c.volume = FlowSum(CloseIncluded, LAMBDA b : b.volume)
          /\ c.buy_volume = FlowSum(CloseIncluded, LAMBDA b : b.buy_volume)
          /\ c.sell_volume = FlowSum(CloseIncluded, LAMBDA b : b.sell_volume)
          /\ c.buy_count = FlowSum(CloseIncluded, LAMBDA b : b.buy_count)
          /\ c.sell_count = FlowSum(CloseIncluded, LAMBDA b : b.sell_count)

\* C6 witness: a venue whose bar has volume is included for open, is an
\* outlier on close, and the bar built from the other two is not a gap.
C6_Witness ==
    /\ b_built.done
    /\ ~b_built.composite.is_gap
    /\ \E v \in Range(BuildVenues) :
          /\ v \notin CloseIncluded
          /\ b_venue_bars[v] # NoBar
          /\ b_venue_bars[v].volume > 0
          /\ LET open_result ==
                     filter_outliers(
                         build_inputs(BuildVenues, b_venue_bars, b_venue_state, "open"),
                         (BuildBarTime + BAR_INTERVAL_SECONDS) * 1000, b_market)
             IN \E j \in 1..Len(open_result.venues) :
                   /\ open_result.venues[j].venue = v
                   /\ open_result.venues[j].included
    /\ Cardinality(CloseIncluded) = 2

\* C10: once the aggregator's stop() has returned neither sink is invoked.
C10_NoSinkAfterStop ==
    a_stop_pc = "returned" => ~a_cb_after_stop

\* C10 witness: stop() was called during the grace sleep after a minute
\* boundary, a connector delivered a bar while stop() was in progress, and
\* stop() has returned.
C10_Witness ==
    /\ a_stop_pc = "returned"
    /\ a_ghost.pc_at_stop = "grace"
    /\ a_ghost.bar_during_stop
    /\ a_pc = "none"
    /\ connectors = {}

\* on_composite_bar was invoked for (asset, market_type) k with bar_time t.
Emitted(k, t) ==
    \E i \in 1..Len(emit_log[k]) : emit_log[k][i].bar_time = t

LateVenueBarStep ==
    \E key \in connectors :
       /\ bar_buffers'[key] # bar_buffers[key]
       /\ Emitted(<<key[2], key[3]>>, bar_buffers'[key].time)

\* s is an initial segment of t.
IsPrefix(s, t) ==
    /\ Len(s) <= Len(t)
    /\ \A i \in 1..Len(s) : s[i] = t[i]

\* C12: once the composite of a minute has been emitted, a venue bar for that
\* minute that completes afterwards changes neither the ring buffer nor the
\* emissions, and no later step rewrites a stored composite or emits an
\* already emitted bar_time again.
C12_LateBarChangesNothing ==
    [][ /\ LateVenueBarStep =>
              /\ composite_bar_buffer' = composite_bar_buffer
              /\ emit_log' = emit_log
              /\ last_emit' = last_emit
              /\ last_composite_times' = last_composite_times
        /\ \A k \in CompositeKeys :
              /\ IsPrefix(composite_bar_buffer[k], composite_bar_buffer'[k])
              /\ IsPrefix(emit_log[k], emit_log'[k])
              /\ \A i \in (Len(emit_log[k]) + 1)..Len(emit_log'[k]) :
                    ~Emitted(k, emit_log'[k][i].bar_time) ]_vars

\* A venue bar of minute 0 arrived after that minute's composite had been
\* emitted without it, and the next minute was emitted afterwards.
C12_Witness ==
    \E key \in connectors :
       LET k == <<key[2], key[3]>>
       IN /\ bar_buffers[key].time = 0
          /\ Len(composite_bar_buffer[k]) >= 1
          /\ composite_bar_buffer[k][1].time = 0
          /\ \A j \in 1..Len(composite_bar_buffer[k][1].included_venues) :
                composite_bar_buffer[k][1].included_venues[j] # key[1]
          /\ Emitted(k, BAR_INTERVAL_SECONDS)

\* The connector of venue v is connected and, at the end of the bar, its last
\* message is older than the venue's stale threshold.
ConnectedButSilent(v) ==
    /\ b_venue_state[v].is_connected
    /\ b_venue_state[v].last_update_ms # None
    /\ (BuildBarTime + BAR_INTERVAL_SECONDS) * 1000 - b_venue_state[v].last_update_ms
          > get_stale_threshold(v, b_market)

\* The composite lists venue v as excluded with the given reason.
ExcludedWith(composite, v, reason) ==
    /\ \A j \in 1..Len(composite.included_venues) : composite.included_venues[j] # v
    /\ \E j \in 1..Len(composite.excluded_venues) :
          /\ composite.excluded_venues[j].venue = v
          /\ composite.excluded_venues[j].reason = reason

\* C13 as stated: a connected venue whose connector's last message is older
\* than its stale threshold is excluded from the minute's composite with
\* reason STALE.
C13_SilentVenueStale ==
    b_built.done =>
       \A v \in Range(BuildVenues) :
          ConnectedButSilent(v) => ExcludedWith(b_built.composite, v, "stale")

\* C13 amended: such a venue is excluded from the minute's composite, with
\* reason STALE when its bar of the minute is in the bar buffer and with
\* reason NO_DATA when it is not.
C13_SilentVenueExcluded ==
    b_built.done =>
       \A v \in Range(BuildVenues) :
          ConnectedButSilent(v) =>
             ExcludedWith(b_built.composite, v,
                          IF b_venue_bars[v] = NoBar THEN "no_data" ELSE "stale")

\* C13 witness: a silent venue with a bar was excluded as STALE and another
\* silent venue without a bar as NO_DATA, in one composite.
C13_Witness ==
    /\ b_built.done
    /\ \E v \in Range(BuildVenues), w \in Range(BuildVenues) :
          /\ ConnectedButSilent(v) /\ b_venue_bars[v] # NoBar
          /\ ExcludedWith(b_built.composite, v, "stale")
          /\ ConnectedButSilent(w) /\ b_venue_bars[w] = NoBar
          /\ ExcludedWith(b_built.composite, w, "no_data")

\* C14: no exception raised while a composite is computed or emitted ends
\* the minute-tick task: the task ends only when it is cancelled or finds
\* _running false, and after the handler's sleep it is back at the loop's
\* second-boundary wait.
C14_TaskSurvivesExceptions ==
    [][ /\ (a_pc # "done" /\ a_pc' = "done") => (a_cancel \/ ~a_running)
        /\ (a_pc = "grace" /\ a_pc' # "grace") =>
              a_pc' \in {"wait_second", "error_sleep", "done"}
        /\ (a_pc = "error_sleep" /\ a_pc' # "error_sleep") =>
              a_pc' \in {"wait_second", "done"} ]_vars

\* C14 witness: in one run of the task, a sink raised on minute 0 (the
\* minute was emitted for the first key only) and minute 60 was then
\* emitted for every key.
C14_Witness ==
    /\ a_running
    /\ ~a_ghost.restarted
    /\ Emitted(CompositeKeySeq[1], 0)
    /\ \E k \in CompositeKeys : ~Emitted(k, 0)
    /\ \A k \in CompositeKeys : Emitted(k, BAR_INTERVAL_SECONDS)

\* C15: once the stored row of a key has is_backfilled = true, it has
\* is_backfilled = true after every later upsert, whatever the upserted bar
\* carries.
C15_BackfilledMonotonic ==
    [][\A k \in RepoKeys :
          (table[k].exists /\ table[k].is_backfilled) =>
             (table'[k].exists /\ table'[k].is_backfilled)]_vars

\* C15 witness: a bar with is_backfilled = false and is_gap = true was
\* upserted over a row that had is_backfilled = true, and the row still has it.
C15_Witness ==
    /\ last_upsert.done
    /\ last_upsert.prior.exists
    /\ last_upsert.prior.is_backfilled
    /\ ~last_upsert.bar.is_backfilled
    /\ last_upsert.bar.is_gap
    /\ table[RowKey(last_upsert.bar)].is_backfilled

\* C16: upserting a bar with is_gap = false over a stored row with
\* is_gap = true leaves the row with is_gap = false and is_backfilled = true,
\* also when the bar carries is_backfilled = false.
C16_GapRepairSetsBackfilled ==
    (/\ last_upsert.done
     /\ last_upsert.prior.exists
     /\ last_upsert.prior.is_gap
     /\ ~last_upsert.bar.is_gap) =>
        /\ ~table[RowKey(last_upsert.bar)].is_gap
        /\ table[RowKey(last_upsert.bar)].is_backfilled

\* C16 witness: the repaired row was a gap that was not backfilled and the
\* repairing bar carried is_backfilled = false.
C16_Witness ==
    /\ last_upsert.done
    /\ last_upsert.prior.exists
    /\ last_upsert.prior.is_gap
    /\ ~last_upsert.prior.is_backfilled
    /\ ~last_upsert.bar.is_gap
    /\ ~last_upsert.bar.is_backfilled
    /\ ~table[RowKey(last_upsert.bar)].is_gap
    /\ table[RowKey(last_upsert.bar)].is_backfilled

\* Every connector connected with an update one second after the bar's end.
FreshState(valid, gap_time) ==
    [v \in Range(valid) |->
        [is_connected |-> TRUE,
         last_update_ms |-> (gap_time + BAR_INTERVAL_SECONDS) * 1000 + 1000]]

\* The prices, the flow and the included venues of two composite bars agree.
SameComposite(a, b) ==
    /\ a.open = b.open /\ a.high = b.high /\ a.low = b.low /\ a.close = b.close
    /\ a.volume = b.volume
    /\ a.buy_volume = b.buy_volume /\ a.sell_volume = b.sell_volume
    /\ a.buy_count = b.buy_count /\ a.sell_count = b.sell_count
    /\ a.included_venues = b.included_venues

\* C17: the composite backfill builds for a gap minute is the one the live
\* outlier filter produces from the same venue bars taken as connected and
\* fresh, so a venue bar more than 100 bps off the median is left out of the
\* medians and of the summed volume and order flow.
C17_BackfillMatchesLiveFilter ==
    (bf_last # NoGapRun /\ bf_last.composite # NoComposite) =>
        SameComposite(bf_last.composite,
                      build_composite("BTC", bf_market, bf_last.gap_time,
                                      bf_last.valid, bf_last.bars,
                                      FreshState(bf_last.valid,
                                                 bf_last.gap_time)).composite)

\* A gap minute has just been processed in which fewer than 2 venues gave a
\* bar.
ShortGapStep ==
    /\ bf_pc = "running"
    /\ bf_gaps' = Tail(bf_gaps)
    /\ Len(bf_last'.valid) < 2

\* C18: for a gap minute in which fewer than 2 venues yield a bar, backfill
\* counts the minute in bars_failed, writes neither venue bars nor a
\* composite, and goes on to the next gap minute.
C18_ShortGapFails ==
    [][ShortGapStep =>
          /\ bf_result'.bars_failed = bf_result.bars_failed + 1
          /\ bf_result'.bars_repaired = bf_result.bars_repaired
          /\ bf_result'.venue_bars_inserted = bf_result.venue_bars_inserted
          /\ venue_rows' = venue_rows
          /\ table' = table
          /\ upserts' = upserts
          /\ (Tail(bf_gaps) # <<>>) => (bf_pc' = "running" /\ bf_gaps' # <<>>)]_vars

\* C18 witness: a minute failed for want of venues (no error was recorded)
\* and the minute after it was repaired.
C18_Witness ==
    /\ bf_last # NoGapRun
    /\ bf_last.written
    /\ bf_result.bars_failed = 1
    /\ bf_result.errors = 0
    /\ bf_result.bars_repaired = 1

\* C19: every composite bar written by backfill has is_backfilled = true
\* and is_gap = false, with open, high, low and close present and at least 2
\* included venues; so has the row it is stored in.
C19_WrittenCompositeRepaired ==
    (bf_last # NoGapRun /\ bf_last.written) =>
        LET c == bf_last.composite
            row == table[RowKey(bf_last.composite)]
        IN /\ c.is_backfilled /\ ~c.is_gap
           /\ c.open # None /\ c.high # None /\ c.low # None /\ c.close # None
           /\ Len(c.included_venues) >= 2
           /\ row.exists /\ row.is_backfilled /\ ~row.is_gap
           /\ row.close = c.close

\* C19 witness: a composite of exactly two venues was written over a gap row.
C19_Witness ==
    /\ bf_last # NoGapRun
    /\ bf_last.written
    /\ Len(bf_last.composite.included_venues) = 2
    /\ last_upsert.done
    /\ last_upsert.prior.exists
    /\ last_upsert.prior.is_gap
    /\ last_upsert.bar = bf_last.composite

\* C20: during backfill_gaps the Coinbase REST fetcher is never invoked,
\* whatever the venues argument.
C20_CoinbaseNeverFetched ==
    "coinbase" \notin fetch_log

\* C21: in every backfilled composite, each venue enabled for the market
\* that is not in BACKFILL_VENUES is in excluded_venues with reason
\* BACKFILL_UNAVAILABLE, and each enabled venue of BACKFILL_VENUES that gave
\* no bar for the minute is there with reason NO_DATA.
C21_ExcludedVenuesMarked ==
    (bf_last # NoGapRun /\ bf_last.composite # NoComposite) =>
        \A v \in Range(get_enabled_venues(bf_market)) :
           /\ v \notin BACKFILL_VENUES =>
                 [venue |-> v, reason |-> "backfill_unavailable"]
                     \in bf_last.composite.excluded_venues
           /\ (v \in BACKFILL_VENUES /\ v \notin DOMAIN bf_last.bars) =>
                 [venue |-> v, reason |-> "no_data"]
                     \in bf_last.composite.excluded_venues

\* An exception left _backfill_single_gap for the gap minute just processed.
GapErrorStep ==
    /\ bf_pc = "running"
    /\ bf_gaps' # bf_gaps
    /\ bf_last'.raised

\* C22: an exception while one gap minute is repaired does not abort
\* backfill_gaps: the minute is counted in bars_failed, its error is added
\* to errors, the remaining gap minutes are still to be attempted, and
\* backfill_gaps returns once none remains.
C22_GapErrorDoesNotAbort ==
    [][GapErrorStep =>
          /\ bf_result'.bars_failed = bf_result.bars_failed + 1
          /\ bf_result'.errors = bf_result.errors + 1
          /\ bf_result'.bars_repaired = bf_result.bars_repaired
          /\ bf_gaps' = Tail(bf_gaps)
          /\ bf_pc' = IF Tail(bf_gaps) = <<>> THEN "returned" ELSE "running"]_vars

\* C22 witness: a gap minute raised, the one after it was repaired, and
\* backfill_gaps returned.
C22_Witness ==
    /\ bf_pc = "returned"
    /\ bf_last # NoGapRun
    /\ bf_last.written
    /\ bf_result.errors = 1
    /\ bf_result.bars_failed = 1
    /\ bf_result.bars_repaired = 1

\* C23: every venue fetch error that occurs while a gap minute is repaired
\* is reported as an error string in BackfillResult.errors.
C23_FetchErrorsReported ==
    [][(bf_pc = "running" /\ bf_gaps' # bf_gaps) =>
          bf_result'.errors >= bf_result.errors + bf_last'.fetch_errors]_vars

\* C24: when a backfill_gaps call over a window left no gap failed, and
\* nothing else wrote to the window, the following call over the same
\* window finds no gap, repairs nothing and writes nothing.
C24_RepeatFindsNothing ==
    \A i \in 1..Len(bf_history) :
        (i > 1 /\ bf_history[i - 1].result.bars_failed = 0
               /\ bf_history[i - 1].market_type = bf_history[i].market_type) =>
            /\ bf_history[i].result.gaps_found = 0
            /\ bf_history[i].result.bars_repaired = 0
            /\ bf_history[i].writes = 0

C24_Witness ==
    /\ Len(bf_history) = 2
    /\ bf_history[1].result.gaps_found = 2
    /\ bf_history[1].result.bars_repaired = 2
    /\ bf_history[1].writes = 2
    /\ bf_history[2].result.gaps_found = 0

\* C25: backfill_gaps attempts every stored composite row with is_gap = TRUE
\* whose time lies in [start, end): gaps_found is the number of such rows,
\* for every window of up to 1440 minutes.
C25_EveryGapRowFound ==
    bf_pc # "idle" => bf_result.gaps_found = bf_started.gap_rows

\* An add_trade step whose trade is stamped exactly on a minute boundary
\* after the minute of the current bar.
BoundaryTradeStep ==
    /\ calls' = calls + 1
    /\ builder.accumulator # NoAcc
    /\ last_trade'.timestamp % (BAR_INTERVAL_SECONDS * 1000) = 0
    /\ last_trade'.timestamp \div 1000 > builder.accumulator.bar_time

\* C26: a trade stamped exactly 60*k seconds that arrives while the current
\* bar is for an earlier minute finalizes that bar without being counted in
\* it, and is the first trade (the open) of a new bar with time 60*k.
C26_BoundaryTradeOpensNewBar ==
    [][BoundaryTradeStep =>
         /\ emitted_bars' = Append(emitted_bars,
                                   Accumulator_to_bar(builder.accumulator, FALSE))
         /\ builder'.accumulator.bar_time = last_trade'.timestamp \div 1000
         /\ builder'.accumulator.open = last_trade'.price
         /\ builder'.accumulator.trade_count = 1
         /\ builder'.accumulator.volume = last_trade'.quantity]_vars

C26_Witness ==
    /\ last_trade.timestamp = 60000
    /\ Len(emitted_bars) = 1
    /\ emitted_bars[1].time = 0
    /\ emitted_bars[1].trade_count = 2
    /\ builder.accumulator.bar_time = 60
    /\ builder.accumulator.trade_count = 1

\* C27: every emitted bar has low <= min(open, close), max(open, close) <=
\* high, buy_count + sell_count = trade_count, and a time that is a multiple
\* of 60.
C27_EmittedBarWellFormed ==
    \A i \in 1..Len(emitted_bars) :
        LET bar == emitted_bars[i]
        IN /\ bar.low <= Min2(bar.open, bar.close)
           /\ Min2(bar.open, bar.close) <= Max2(bar.open, bar.close)
           /\ Max2(bar.open, bar.close) <= bar.high
           /\ bar.buy_count + bar.sell_count = bar.trade_count
           /\ bar.time % 60 = 0

C27_Witness ==
    /\ Len(emitted_bars) = 1
    /\ emitted_bars[1].trade_count = 2
    /\ emitted_bars[1].open = 100
    /\ emitted_bars[1].high = 110
    /\ emitted_bars[1].low = 100
    /\ emitted_bars[1].close = 110
    /\ emitted_bars[1].buy_count = 1
    /\ emitted_bars[1].sell_count = 1

\* C28: the bars passed to on_bar_complete have strictly increasing time,
\* one add_trade call completes at most one bar, and every emitted bar is
\* for a minute in which a trade was accepted.
C28_EmittedBarsOrderedAndReal ==
    [][/\ Len(emitted_bars') <= Len(emitted_bars) + 1
       /\ SubSeq(emitted_bars', 1, Len(emitted_bars)) = emitted_bars
       /\ \A i \in 1..Len(emitted_bars') :
             /\ emitted_bars'[i].time \in accepted_minutes'
             /\ i > 1 => emitted_bars'[i - 1].time < emitted_bars'[i].time]_vars

C28_Witness ==
    /\ Len(emitted_bars) = 1
    /\ emitted_bars[1].time = 0
    /\ builder.accumulator.bar_time = 120
    /\ accepted_minutes = {0, 120}
    /\ calls = 3

\* An add_trade step on a builder whose current bar has accepted
\* MAX_TRADE_BUFFER_SIZE trades.
CappedStep ==
    /\ calls' = calls + 1
    /\ builder.accumulator # NoAcc
    /\ builder.trade_count >= MAX_TRADE_BUFFER_SIZE

\* C29: once 5000 trades have been accepted into the current bar, a further
\* trade of the same minute is dropped, while the first trade of a later
\* minute finalizes the capped bar, is accepted into the new bar, and the
\* per-minute count restarts from zero.
C29_CapDropsUntilNextMinute ==
    [][CappedStep =>
         /\ floor_to_minute(last_trade'.timestamp) = builder.accumulator.bar_time =>
               /\ builder' = builder
               /\ emitted_bars' = emitted_bars
               /\ accepted_minutes' = accepted_minutes
         /\ floor_to_minute(last_trade'.timestamp) > builder.accumulator.bar_time =>
               /\ emitted_bars' = Append(emitted_bars,
                                         Accumulator_to_bar(builder.accumulator, FALSE))
               /\ builder'.accumulator.bar_time = floor_to_minute(last_trade'.timestamp)
               /\ builder'.accumulator.open = last_trade'.price
               /\ builder'.accumulator.trade_count = 1
               /\ builder'.trade_count = 1
               /\ builder'.last_trade_time = last_trade'.timestamp]_vars

C29_Witness ==
    /\ calls = 3
    /\ Len(emitted_bars) = 1
    /\ emitted_bars[1].trade_count = MAX_TRADE_BUFFER_SIZE
    /\ emitted_bars[1].volume = MAX_TRADE_BUFFER_SIZE + 1
    /\ builder.accumulator.bar_time = 60
    /\ builder.trade_count = 1

\* Some venue of the result was excluded for the reason.
ExcludedFor(result, reason) ==
    \E i \in 1..Len(result.venues) : result.venues[i].exclude_reason = reason

\* The first applicable reason of a degraded result, in the stated order.
FirstApplicableReason(result) ==
    IF ExcludedFor(result, "disconnected") THEN "venue_disconnected"
    ELSE IF ExcludedFor(result, "stale") THEN "venue_stale"
    ELSE IF ExcludedFor(result, "outlier") THEN "venue_outlier"
    ELSE IF result.included_count = 1 THEN "single_source"
    ELSE "below_preferred_quorum"

\* C30: degraded_reason is NONE exactly when the result is not degraded, and
\* otherwise the first applicable of VENUE_DISCONNECTED, VENUE_STALE,
\* VENUE_OUTLIER, SINGLE_SOURCE (exactly one venue included) and
\* BELOW_PREFERRED_QUORUM.
C30_DegradedReasonByPriority ==
    f_result # NoResult =>
        /\ (f_result.degraded_reason = "none") = ~f_result.degraded
        /\ f_result.degraded =>
              f_result.degraded_reason = FirstApplicableReason(f_result)

\* The reorderings of a list of n elements.
Reorderings(n) ==
    {p \in [1..n -> 1..n] : \A i, j \in 1..n : i # j => p[i] # p[j]}

\* Result alt, of the inputs taken in the order p, says of the composite and
\* of every venue what result says.
SameOutcome(alt, result, p) ==
    /\ alt.price = result.price
    /\ alt.is_gap = result.is_gap
    /\ alt.degraded = result.degraded
    /\ alt.degraded_reason = result.degraded_reason
    /\ \A i \in 1..Len(p) :
          /\ alt.venues[i].venue = result.venues[p[i]].venue
          /\ alt.venues[i].included = result.venues[p[i]].included
          /\ alt.venues[i].exclude_reason = result.venues[p[i]].exclude_reason

\* C31: for fixed now and market type, filter_outliers gives the same
\* price, the same inclusion and exclusion reason of every venue, and the
\* same is_gap, degraded and degraded_reason for every reordering of its
\* input list.
C31_PermutationInvariant ==
    f_result # NoResult =>
        \A p \in Reorderings(Len(f_inputs)) :
            SameOutcome(filter_outliers([i \in 1..Len(f_inputs) |-> f_inputs[p[i]]],
                                        f_now, f_market),
                        f_result, p)

C31_Witness ==
    /\ f_result # NoResult
    /\ Len(f_inputs) = 3
    /\ f_inputs[1].price = 95100
    /\ f_inputs[2].price = 94100
    /\ f_inputs[3].price = 94600
    /\ f_result.included_count = 3
    /\ f_result.price = 94600

\* The list without its i-th element.
RemoveAt(s, i) == SubSeq(s, 1, i - 1) \o SubSeq(s, i + 1, Len(s))

\* The venues a filter result includes.
IncludedSet(result) ==
    {result.venues[i].venue : i \in IncludedVenues(result)}

\* Result alt has the price, the included venues and the flags of result.
SameComposite_Flags(alt, result) ==
    /\ alt.price = result.price
    /\ IncludedSet(alt) = IncludedSet(result)
    /\ alt.is_gap = result.is_gap
    /\ alt.degraded = result.degraded

\* The inputs that filter_outliers excluded as DISCONNECTED or STALE.
DroppedInputs ==
    {i \in 1..Len(f_inputs) :
        f_result.venues[i].exclude_reason \in {"disconnected", "stale"}}

\* Result alt has, besides, the degraded_reason of result.
SameCompositeAndReason(alt, result) ==
    /\ SameComposite_Flags(alt, result)
    /\ alt.degraded_reason = result.degraded_reason

\* C32 as stated: removing a venue that is excluded as DISCONNECTED or
\* STALE changes neither the price, the set of included venues, is_gap,
\* degraded nor degraded_reason.
C32_RemovalChangesNothing ==
    f_result # NoResult =>
        \A i \in DroppedInputs :
            SameCompositeAndReason(
                filter_outliers(RemoveAt(f_inputs, i), f_now, f_market), f_result)

\* C32 amended: removing a venue that is excluded as DISCONNECTED or STALE
\* changes neither the price, the set of included venues, is_gap nor
\* degraded; degraded_reason, which names the exclusions present, may change.
C32_RemovalKeepsComposite ==
    f_result # NoResult =>
        \A i \in DroppedInputs :
            SameComposite_Flags(
                filter_outliers(RemoveAt(f_inputs, i), f_now, f_market), f_result)

C32_Witness ==
    /\ f_result # NoResult
    /\ Len(f_inputs) = 3
    /\ DroppedInputs = {3}
    /\ f_inputs[3].price = 95100
    /\ ~f_inputs[3].is_connected
    /\ f_result.included_count = 2
    /\ f_result.price = 94100
    /\ f_result.degraded_reason = "venue_disconnected"

\* The last n elements of s, all of s when it has fewer.
LastN(s, n) == SubSeq(s, Max2(1, Len(s) - n + 1), Len(s))

\* The times of the bars of a buffer, and of the emissions recorded.
BufferTimes(buffer) == [i \in 1..Len(buffer) |-> buffer[i].time]
EmittedTimes(log) == [i \in 1..Len(log) |-> log[i].bar_time]

\* C33: after any number of stored composites the buffer of each (asset,
\* market_type) holds at most 120 bars, the most recently stored ones in
\* order, and storing a bar for one key leaves the buffer of every other key
\* as it was.
C33_BufferBoundedPerKey ==
    [][\A k \in CompositeKeys :
          /\ Len(composite_bar_buffer'[k]) <= 120
          /\ BufferTimes(composite_bar_buffer'[k]) =
                LastN(EmittedTimes(emit_log'[k]), 120)
          /\ emit_log'[k] = emit_log[k] =>
                composite_bar_buffer'[k] = composite_bar_buffer[k]]_vars

C33_Witness ==
    /\ Len(composite_bar_buffer[<<"BTC", "spot">>]) = 120
    /\ Len(emit_log[<<"BTC", "spot">>]) = 122
    /\ composite_bar_buffer[<<"BTC", "spot">>][1].time = 3 * BAR_INTERVAL_SECONDS
    /\ Len(composite_bar_buffer[<<"BTC", "perp">>]) = 1

\* The composite says venue v took part, or was left out as disconnected,
\* stale or an outlier.
ContributesOrExcused(composite, v) ==
    \/ \E j \in 1..Len(composite.included_venues) : composite.included_venues[j] = v
    \/ ExcludedWith(composite, v, "disconnected")
    \/ ExcludedWith(composite, v, "stale")
    \/ ExcludedWith(composite, v, "outlier")

\* C34: a venue that traded in minute M (its bar for M exists) and stayed
\* connected is included in the composite computed for M unless it is stale
\* or an outlier, also when its bar completes after the grace period.
C34_TradedVenueContributes ==
    ~a_ghost.restarted =>
        \A key \in connectors :
            bar_buffers[key] # NoBar =>
                \A i \in 1..Len(composite_bar_buffer[<<key[2], key[3]>>]) :
                    LET composite == composite_bar_buffer[<<key[2], key[3]>>][i]
                    IN composite.time = bar_buffers[key].time =>
                           ContributesOrExcused(composite, key[1])

\* The composite of (asset, market_type) k has just been computed.
ComputedStep(k) == Len(emit_log'[k]) = Len(emit_log[k]) + 1

\* The composite leaves venue v out, as a venue without data or connection.
LeftOutWithoutData(composite, v) ==
    \/ ExcludedWith(composite, v, "no_data")
    \/ ExcludedWith(composite, v, "disconnected")

\* C35: the composite for bar_time uses a venue's buffered bar only if the
\* bar's time is bar_time: a venue whose buffered bar is of another minute
\* hands no bar to the computation, is not included and is excluded as having
\* no data (or as disconnected).
C35_OnlyBarsOfTheMinute ==
    [][\A key \in connectors :
          LET k == <<key[2], key[3]>>
          IN (ComputedStep(k) /\ bar_buffers[key] # NoBar
                /\ bar_buffers[key].time # emit_log'[k][Len(emit_log'[k])].bar_time) =>
                 /\ last_emit'[k].venue_bars[key[1]] = NoBar
                 /\ key[1] \notin last_emit'[k].close_included
                 /\ LeftOutWithoutData(
                        composite_bar_buffer'[k][Len(composite_bar_buffer'[k])],
                        key[1])]_vars

\* The composite of minute 60 was computed while coinbase's buffer still
\* held its bar of minute 0.
C35_Witness ==
    /\ bar_buffers[<<"coinbase", "BTC", "spot">>].time = 0
    /\ Len(emit_log[<<"BTC", "spot">>]) = 2
    /\ emit_log[<<"BTC", "spot">>][2].bar_time = 60
    /\ last_emit[<<"BTC", "spot">>].venue_bars["coinbase"] = NoBar
    /\ ExcludedWith(composite_bar_buffer[<<"BTC", "spot">>][2], "coinbase", "no_data")

\* C36: when a sink callback raises while the composite of one (asset,
\* market_type) is emitted, the composites of the other keys for the same
\* bar_time are still computed and emitted.
C36_RaiseDoesNotStopOtherKeys ==
    [][\A k1 \in CompositeKeys :
          (ComputedStep(k1) /\ a_pc' = "error_sleep") =>
              \A k2 \in CompositeKeys :
                  \E i \in 1..Len(emit_log'[k2]) :
                      emit_log'[k2][i].bar_time =
                          emit_log'[k1][Len(emit_log'[k1])].bar_time]_vars

\* C37: under any interleaving of live upserts and backfill upserts on one
\* key, no stored composite row has is_gap = TRUE together with
\* is_backfilled = TRUE.
C37_RepairedNeverGapAgain ==
    \A key \in DOMAIN table :
        table[key].exists => ~(table[key].is_gap /\ table[key].is_backfilled)

\* The venue bars _build_composite was given that are present.
GivenBars == {v \in DOMAIN b_venue_bars : b_venue_bars[v] # NoBar}

\* Every input venue bar has low <= min(open, close) and max(open, close) <= high.
InputsOrdered ==
    \A v \in GivenBars :
        LET bar == b_venue_bars[v]
        IN /\ bar.low <= Min2(bar.open, bar.close)
           /\ Max2(bar.open, bar.close) <= bar.high

\* C38: every non-gap composite bar built from venue bars that each satisfy
\* low <= min(open, close) and max(open, close) <= high satisfies the same
\* ordering, in particular low <= high.
C38_CompositeOHLCOrdered ==
    (b_built.done /\ ~b_built.composite.is_gap /\ InputsOrdered) =>
       LET c == b_built.composite
       IN /\ c.open # None /\ c.high # None /\ c.low # None /\ c.close # None
          /\ c.low <= Min2(c.open, c.close)
          /\ Max2(c.open, c.close) <= c.high
          /\ c.low <= c.high

\* A step of backfill_gaps that counts the minute it worked on in bars_failed.
FailedMinuteStep ==
    /\ bf_pc = "running"
    /\ bf_last' # bf_last
    /\ bf_result'.bars_failed = bf_result.bars_failed + 1

\* C39: backfill persists a gap minute's venue bars and its repaired
\* composite together: a minute counted in bars_failed leaves venue_bars and
\* composite_bars unchanged.
C39_FailedMinuteLeavesStoreUnchanged ==
    [][FailedMinuteStep => (venue_rows' = venue_rows /\ table' = table)]_vars

\* C40: after backfill_gaps over a minute-aligned window returned with
\* bars_failed = 0, the integrity stats over the same window report
\* total_gaps = 0: minutes without a stored row are repaired as well as rows
\* with is_gap = TRUE.
C40_IntegrityCleanAfterBackfill ==
    (bf_pc = "returned" /\ bf_result.bars_failed = 0) =>
        get_integrity_stats(table, "BTC", bf_market, bf_window.start_time,
                            bf_window.end_time).total_gaps = 0

====
